---- MODULE Spec2Model ----
(***************************************************************************)
(* Model of the file-backed card manager (src/services/CardManager.ts),    *)
(* its store (src/storage/CardStorage.ts) and the text utilities           *)
(* (src/utils/CardUtils.ts).                                               *)
(*                                                                         *)
(* Strings are sequences of one-character strings, so that substring,      *)
(* trim and split are computed character by character as the code does.    *)
(* A Date is the integer clock value at which it was taken; every manager  *)
(* operation reads the clock once and the clock advances between           *)
(* operations.                                                             *)
(*                                                                         *)
(* cards, chunks and views are the three directories of the store: each    *)
(* maps the ids that have a file to the document in it.  nextId,           *)
(* nextChunkId and nextViewId count the ids generateCardId has returned    *)
(* for each kind.  last is the call that returned last.  calls holds the   *)
(* calls that are in flight in the specifications that interleave the      *)
(* steps of calls, service the state of CardboardService.  files is the    *)
(* cards directory at the level of file contents, where a save is an open  *)
(* that truncates followed by a write.                                     *)
(*                                                                         *)
(* Spec runs the operations on cards one after the other, SpecStore those  *)
(* on cards, chunks and views.  SpecFile interleaves the steps of calls on *)
(* one card file, SpecRetry lets splitCard and mergeCards fail between two *)
(* writes and be called again, SpecService interleaves getCardManager      *)
(* calls of CardboardService (src/unnamed/part_001).  SpecMerge merges     *)
(* two cards with tags, SpecImport imports a text as cards and a chunk,    *)
(* SpecExport deletes cards and chunks and exports a chunk as text,        *)
(* SpecStorage calls the store directly, with failing file operations.     *)
(* SpecStatus follows the status of the cards through all operations,      *)
(* SpecRace interleaves the calls of the manager at each await, SpecView   *)
(* exports a view whose chunks are deleted.                                *)
(***************************************************************************)
EXTENDS Integers, Sequences, FiniteSets, TLC

VARIABLES cards, chunks, views, nextId, nextChunkId, nextViewId, now, last,
          calls, service, files

vars ==
    <<cards, chunks, views, nextId, nextChunkId, nextViewId, now, last,
      calls, service, files>>

chunkVars == <<chunks, views, nextChunkId, nextViewId>>

asyncVars == <<calls, service, files>>

(* ------------------------------ bounds --------------------------------- *)

\* number of ids generateCardId can hand out in one behaviour
MaxIds == 2

\* number of manager operations in one behaviour (the clock stops there)
MaxClock == 3

\* number of chunk ids and of view ids handed out in one behaviour
MaxChunks == 1

MaxViews == 1

\* number of calls in flight together
MaxCalls == 2

\* number of getCardManager calls and of dispose calls in one behaviour
MaxGets == 3

MaxDisposes == 1

\* number of tags of a card before a merge
MaxTags == 2

\* number of characters of an imported text
MaxText == 4

(* --------------------------- program constants ------------------------- *)

TitleMax == 50

TruncLen == 47

SplitGap == 20

DefaultWidth == 250

DefaultHeight == 200

DefaultColumns == 3

DefaultSpacing == 20

\* importTextAsCards: columns and cell of the grid it places the cards on
ImportColumns == 3

ImportCellWidth == 270

ImportCellHeight == 220

\* JSON.stringify(card, null, 2): the characters of a card with empty
\* strings, no tags, no history and one-digit numbers; those a history
\* entry adds besides its content and changeType; those a tag adds besides
\* its text; those a non-empty array adds to "[]"
CardJsonBase == 336

EntryJsonBase == 104

TagJsonBase == 8

ArrayJsonBase == 2

(* ------------------------------ strings -------------------------------- *)

\* the characters String.prototype.trim and the regexp class \s match,
\* restricted to the alphabet of the model
Whitespace == {" ", "\n"}

SentenceEnd == {".", "!", "?"}

Min(a, b) == IF a < b THEN a ELSE b

Max(a, b) == IF a > b THEN a ELSE b

\* String.prototype.substring(start, end): both arguments are clamped to
\* [0, length] and swapped when start > end
substring(s, start, end) ==
    LET a == Max(0, Min(start, Len(s)))
        b == Max(0, Min(end, Len(s)))
    IN  SubSeq(s, Min(a, b) + 1, Max(a, b))

\* String.prototype.substring(start)
substringFrom(s, start) == substring(s, start, Len(s))

RECURSIVE trimStart(_)
trimStart(s) ==
    IF s = <<>> \/ Head(s) \notin Whitespace THEN s ELSE trimStart(Tail(s))

RECURSIVE trimEnd(_)
trimEnd(s) ==
    IF s = <<>> \/ s[Len(s)] \notin Whitespace THEN s
    ELSE trimEnd(SubSeq(s, 1, Len(s) - 1))

\* String.prototype.trim
trim(s) == trimEnd(trimStart(s))

\* index of the first character of s at or after i that is (inSet = TRUE)
\* or is not (inSet = FALSE) in set; Len(s) + 1 when there is none
RECURSIVE FirstFrom(_, _, _, _)
FirstFrom(s, i, set, inSet) ==
    IF i > Len(s) THEN Len(s) + 1
    ELSE IF (s[i] \in set) = inSet THEN i
    ELSE FirstFrom(s, i + 1, set, inSet)

\* String.prototype.split(/[set]+/): the separators are the maximal runs of
\* characters of set
RECURSIVE splitRuns(_, _)
splitRuns(s, set) ==
    LET i == FirstFrom(s, 1, set, TRUE)
        j == FirstFrom(s, i, set, FALSE)
    IN  IF i > Len(s) THEN <<s>>
        ELSE <<SubSeq(s, 1, i - 1)>> \o splitRuns(SubSeq(s, j, Len(s)), set)

\* String.prototype.split(ch): every occurrence of ch separates
RECURSIVE splitChar(_, _)
splitChar(s, ch) ==
    LET i == FirstFrom(s, 1, {ch}, TRUE)
    IN  IF i > Len(s) THEN <<s>>
        ELSE <<SubSeq(s, 1, i - 1)>> \o splitChar(SubSeq(s, i + 1, Len(s)), ch)

\* the index of the last character of the longest match of /\n\s*\n/ that
\* starts at the newline s[i]; 0 when there is no match there
matchBlankLines(s, i) ==
    LET ends == {j \in (i + 1)..Len(s) :
                    /\ s[j] = "\n"
                    /\ \A k \in (i + 1)..(j - 1) : s[k] \in Whitespace}
    IN  IF ends = {} THEN 0 ELSE CHOOSE j \in ends : \A k \in ends : k <= j

splitBlankLinesEvery(s) == splitChar(s, "\n")

\* String.prototype.split(/\n\s*\n/): the leftmost match separates, \s* is
\* greedy, and the search goes on behind the match
RECURSIVE splitBlankLines(_)
splitBlankLines(s) ==
    LET starts == {i \in 1..Len(s) :
                      s[i] = "\n" /\ matchBlankLines(s, i) > 0}
        i == CHOOSE a \in starts : \A b \in starts : a <= b
        j == matchBlankLines(s, i)
    IN  IF starts = {} THEN <<s>>
        ELSE <<SubSeq(s, 1, i - 1)>>
                 \o splitBlankLines(SubSeq(s, j + 1, Len(s)))

UntitledCard ==
    <<"U", "n", "t", "i", "t", "l", "e", "d", " ", "C", "a", "r", "d">>

Ellipsis == <<".", ".", ".">>

extractTitle(content) ==
    LET lines == splitChar(trim(content), "\n")
        firstLine == trim(lines[1])
        sentences == splitRuns(firstLine, SentenceEnd)
        firstSentence == trim(sentences[1])
    IN  IF Len(firstLine) > 0
        THEN IF Len(firstLine) <= TitleMax THEN firstLine
             ELSE IF Len(firstSentence) <= TitleMax THEN firstSentence
             ELSE substring(firstSentence, 0, TruncLen) \o Ellipsis
        ELSE UntitledCard

countWords(content) ==
    IF content = <<>> \/ Len(trim(content)) = 0 THEN 0
    ELSE Len(splitRuns(trim(content), Whitespace))

\* the truthiness of a string: only the empty string is falsy
Truthy(s) == s # <<>>

(* ------------------------------- cards --------------------------------- *)

\* VersionEntry
Entry(t, content, changeType) ==
    [timestamp |-> t, content |-> content, changeType |-> changeType]

DefaultPosition ==
    [x |-> 0, y |-> 0, width |-> DefaultWidth, height |-> DefaultHeight]

\* a Partial<WritingCard>: fields names the properties the object carries,
\* metaFields the properties its metadata object carries; the value of a
\* property that is not carried is never read
NoPatch ==
    [fields |-> {}, id |-> 0, title |-> <<>>, content |-> <<>>, tags |-> <<>>,
     status |-> "draft", history |-> <<>>, position |-> DefaultPosition,
     metaFields |-> {},
     metadata |-> [wordCount |-> 0, createdAt |-> 0, updatedAt |-> 0]]

Has(updates, f) == f \in updates.fields

HasMeta(updates, f) == Has(updates, "metadata") /\ f \in updates.metaFields

(* ------------------------------- store --------------------------------- *)

\* CardStorage.saveCard: the document is written to cards/<card.id>.json.
\* JSON.stringify writes a Date as its ISO-8601 string, which names the same
\* instant, so the stored document carries the same clock values.
saveCard(store, card) ==
    [i \in DOMAIN store \cup {card.id} |->
        IF i = card.id THEN card ELSE store[i]]

\* CardStorage.loadCard returns null exactly when the file does not exist
Persisted(store, id) == id \in DOMAIN store

loadCard(store, id) == store[id]

\* CardStorage.deleteCard unlinks the file; a missing file is not an error
deleteCard(store, id) == [i \in DOMAIN store \ {id} |-> store[i]]

(* ----------------------- the store as file contents ------------------- *)

\* the characters of a string in JSON: a newline is written as two
jsonString(str) ==
    IF str = <<>> THEN 0
    ELSE LET n[i \in 0..Len(str)] ==
                 IF i = 0 THEN 0
                 ELSE n[i - 1] + (IF str[i] = "\n" THEN 2 ELSE 1)
         IN  n[Len(str)]

\* the decimal digits of a natural number
RECURSIVE digits(_)
digits(n) == IF n < 10 THEN 1 ELSE 1 + digits(n \div 10)

statusLength(status) ==
    CASE status = "draft" -> 5 [] status = "edited" -> 6
      [] status = "reviewed" -> 8 [] status = "final" -> 5

changeTypeLength(changeType) ==
    CASE changeType = "create" -> 6 [] changeType = "edit" -> 4
      [] changeType = "merge" -> 5 [] changeType = "split" -> 5

\* the length of JSON.stringify(card, null, 2); ids are UUIDs, Dates are
\* ISO strings and tags are one character long, numbers are not negative
jsonLength(card) ==
    LET h[i \in 0..Len(card.history)] ==
            IF i = 0 THEN 0
            ELSE h[i - 1] + EntryJsonBase + jsonString(card.history[i].content)
                     + changeTypeLength(card.history[i].changeType)
    IN  CardJsonBase + jsonString(card.title) + jsonString(card.content)
          + statusLength(card.status)
          + (IF card.tags = <<>> THEN 0
             ELSE ArrayJsonBase + Len(card.tags) * (TagJsonBase + 1))
          + (IF card.history = <<>> THEN 0
             ELSE ArrayJsonBase + h[Len(card.history)])
          + (digits(card.position.x) - 1) + (digits(card.position.y) - 1)
          + (digits(card.position.width) - 1)
          + (digits(card.position.height) - 1)
          + (digits(card.metadata.wordCount) - 1)

\* a file that holds the whole text of a card
FileOf(card) == [kind |-> "doc", doc |-> <<card>>, size |-> jsonLength(card)]

\* a file of no bytes
EmptyFile == [kind |-> "empty", doc |-> <<>>, size |-> 0]

\* fs.writeFile, first step: open with flag "w" creates or truncates
openTruncate(dir, id) ==
    [i \in DOMAIN dir \cup {id} |-> IF i = id THEN EmptyFile ELSE dir[i]]

\* fs.writeFile, second step: the text is written from offset 0 of the file
\* as it is by then; bytes beyond the text stay
writeData(dir, id, card) ==
    [dir EXCEPT ![id] =
        IF @.size <= jsonLength(card) THEN FileOf(card)
        ELSE [kind |-> "mixed", doc |-> <<>>, size |-> @.size]]

\* CardStorage.loadCard on file contents: null for a missing file, the
\* card for a whole text, otherwise the SyntaxError of JSON.parse
readCard(dir, id) ==
    IF id \notin DOMAIN dir THEN [err |-> "none", ret |-> <<>>]
    ELSE IF dir[id].kind = "doc" THEN [err |-> "none", ret |-> dir[id].doc]
    ELSE [err |-> "SyntaxError", ret |-> <<>>]

(* ------------------ the store operations, with failures ---------------- *)

\* the error code of a failing file operation other than ENOENT, or "none"
Faults == {"none", "EACCES"}

CardStorage_loadThrows(dir, id, fault) ==
    IF fault # "none" THEN [err |-> fault, ret |-> <<>>]
    ELSE IF id \notin DOMAIN dir THEN [err |-> "ENOENT", ret |-> <<>>]
    ELSE [err |-> "none", ret |-> <<dir[id]>>]

\* CardStorage.loadCard, loadChunk and loadView on the directory dir of
\* their kind: ENOENT of readFile becomes null (no element), any other
\* error is thrown again
CardStorage_load(dir, id, fault) ==
    IF fault # "none" THEN [err |-> fault, ret |-> <<>>]
    ELSE IF id \notin DOMAIN dir THEN [err |-> "none", ret |-> <<>>]
    ELSE [err |-> "none", ret |-> <<dir[id]>>]

\* CardStorage.deleteCard, deleteChunk and deleteView: true after unlink,
\* false for ENOENT of unlink, any other error is thrown again
CardStorage_delete(dir, id, fault) ==
    IF fault # "none" THEN [err |-> fault, dir |-> dir, ret |-> FALSE]
    ELSE [err |-> "none", dir |-> [i \in DOMAIN dir \ {id} |-> dir[i]],
          ret |-> id \in DOMAIN dir]

\* the documents of dir with ids up to n, by id
RECURSIVE documentsUpTo(_, _)
documentsUpTo(dir, n) ==
    IF n = 0 THEN <<>>
    ELSE IF n \in DOMAIN dir THEN Append(documentsUpTo(dir, n - 1), dir[n])
    ELSE documentsUpTo(dir, n - 1)

\* CardStorage.loadAllCards, loadAllChunks and loadAllViews: ENOENT of
\* readdir (missing) becomes [], any other error is thrown again
CardStorage_loadAll(dir, missing, fault) ==
    IF missing THEN [err |-> "none", ret |-> <<>>]
    ELSE IF fault # "none" THEN [err |-> fault, ret |-> <<>>]
    ELSE [err |-> "none",
          ret |-> documentsUpTo(dir, Cardinality(DOMAIN dir) + MaxIds)]

(* ------------------------------ manager -------------------------------- *)

initialHistoryNone(content, t) == <<>>

\* the history createCard seeds the card with
initialHistory(content, t) == <<Entry(t, content, "create")>>

\* CardManager.createCard before its saveCard: the card object
newCardObject(id, content, title, tags, hasPosition, position, t) ==
    [id |-> id,
     title |-> IF Truthy(title) THEN title ELSE extractTitle(content),
     content |-> content,
     tags |-> tags,
     status |-> "draft",
     history |-> initialHistory(content, t),
     position |-> IF hasPosition THEN position ELSE DefaultPosition,
     metadata |-> [wordCount |-> countWords(content),
                   createdAt |-> t, updatedAt |-> t]]

updatedMetadataStale(card, updates, t) ==
    [wordCount |-> IF Has(updates, "content") /\ Truthy(updates.content)
                   THEN countWords(updates.content)
                   ELSE card.metadata.wordCount,
     createdAt |-> IF HasMeta(updates, "createdAt")
                   THEN updates.metadata.createdAt
                   ELSE card.metadata.createdAt,
     updatedAt |-> IF HasMeta(updates, "updatedAt")
                   THEN updates.metadata.updatedAt
                   ELSE card.metadata.updatedAt]

\* the metadata object of updateCard: the card's, overridden by the patch's,
\* overridden by the fresh updatedAt and the word count
updatedMetadata(card, updates, t) ==
    [wordCount |-> IF Has(updates, "content") /\ Truthy(updates.content)
                   THEN countWords(updates.content)
                   ELSE card.metadata.wordCount,
     createdAt |-> IF HasMeta(updates, "createdAt")
                   THEN updates.metadata.createdAt
                   ELSE card.metadata.createdAt,
     updatedAt |-> t]

\* the object updateCard builds from the loaded card and the patch
updatedCardObject(card, updates, t) ==
    LET contentGiven == Has(updates, "content") /\ Truthy(updates.content)
        merged ==
            [id |-> IF Has(updates, "id") THEN updates.id ELSE card.id,
             title |-> IF Has(updates, "title") THEN updates.title
                       ELSE card.title,
             content |-> IF Has(updates, "content") THEN updates.content
                         ELSE card.content,
             tags |-> IF Has(updates, "tags") THEN updates.tags ELSE card.tags,
             status |-> IF Has(updates, "status") THEN updates.status
                        ELSE card.status,
             history |-> IF Has(updates, "history") THEN updates.history
                         ELSE card.history,
             position |-> IF Has(updates, "position") THEN updates.position
                          ELSE card.position,
             metadata |-> updatedMetadata(card, updates, t)]
    IN  IF contentGiven /\ updates.content # card.content
        THEN [merged EXCEPT !.history =
                Append(card.history, Entry(t, updates.content, "edit"))]
        ELSE merged

\* CardManager.updateCard: err, the store afterwards and the returned card
updateCard(store, id, updates, t) ==
    IF ~Persisted(store, id)
    THEN [err |-> "NotFound", store |-> store, ret |-> <<>>]
    ELSE LET updatedCard == updatedCardObject(loadCard(store, id), updates, t)
         IN  [err |-> "none", store |-> saveCard(store, updatedCard),
              ret |-> <<updatedCard>>]

pushHistory(card, t, content, changeType) ==
    [card EXCEPT !.history = Append(@, Entry(t, content, changeType))]

splitPositionNoGap(position) ==
    [x |-> position.x + position.width, y |-> position.y,
     width |-> position.width, height |-> position.height]

\* the position splitCard gives the new card
splitPosition(position) ==
    [x |-> position.x + position.width + SplitGap, y |-> position.y,
     width |-> position.width, height |-> position.height]

\* CardManager.splitCard; newId is the id generateCardId returns
splitCard(store, id, splitPoint, newId, t) ==
    IF ~Persisted(store, id)
    THEN [err |-> "NotFound", store |-> store, ret |-> <<>>]
    ELSE
    LET card == loadCard(store, id)
        content1 == trim(substring(card.content, 0, splitPoint))
        content2 == trim(substringFrom(card.content, splitPoint))
        upd == updateCard(store, id,
                 [NoPatch EXCEPT !.fields = {"content", "title"},
                                 !.content = content1,
                                 !.title = extractTitle(content1)], t)
        created == newCardObject(newId, content2, extractTitle(content2),
                     card.tags, TRUE,
                     splitPosition(card.position), t)
        store2 == saveCard(upd.store, created)
        updatedCard1 == pushHistory(upd.ret[1], t, content1, "split")
        newCard == pushHistory(created, t, content2, "split")
    IN  [err |-> "none",
         store |-> saveCard(saveCard(store2, updatedCard1), newCard),
         ret |-> <<updatedCard1, newCard>>]

\* CardManager.splitCard on a persisted card, write by write: the store
\* after the saveCard of updateCard, of createCard, of the original with
\* its split entry and of the new card with its split entry
splitCardWrites(store, id, splitPoint, newId, t) ==
    LET card == loadCard(store, id)
        content1 == trim(substring(card.content, 0, splitPoint))
        content2 == trim(substringFrom(card.content, splitPoint))
        upd == updateCard(store, id,
                 [NoPatch EXCEPT !.fields = {"content", "title"},
                                 !.content = content1,
                                 !.title = extractTitle(content1)], t)
        created == newCardObject(newId, content2, extractTitle(content2),
                     card.tags, TRUE,
                     splitPosition(card.position), t)
        store2 == saveCard(upd.store, created)
        store3 == saveCard(store2,
                      pushHistory(upd.ret[1], t, content1, "split"))
        store4 == saveCard(store3, pushHistory(created, t, content2, "split"))
    IN  <<upd.store, store2, store3, store4>>

uniqueTagsAll(tags) == tags

\* [...new Set(tags)]: the first occurrence of every tag, in order
RECURSIVE uniqueTags(_)
uniqueTags(tags) ==
    IF tags = <<>> THEN <<>>
    ELSE LET init == uniqueTags(SubSeq(tags, 1, Len(tags) - 1))
             tag == tags[Len(tags)]
         IN  IF \E i \in 1..Len(init) : init[i] = tag THEN init
             ELSE Append(init, tag)

Newline2 == <<"\n", "\n">>

mergedContentOneNewline(content1, content2) ==
    content1 \o <<"\n">> \o content2

\* the template string of mergeCards
mergedContentOf(content1, content2) == content1 \o Newline2 \o content2

\* CardManager.mergeCards
mergeCards(store, id1, id2, t) ==
    IF ~Persisted(store, id1) \/ ~Persisted(store, id2)
    THEN [err |-> "NotFound", store |-> store, ret |-> <<>>]
    ELSE
    LET card1 == loadCard(store, id1)
        card2 == loadCard(store, id2)
        mergedContent == mergedContentOf(card1.content, card2.content)
        mergedTags == uniqueTags(card1.tags \o card2.tags)
        upd == updateCard(store, id1,
                 [NoPatch EXCEPT !.fields = {"content", "title", "tags"},
                                 !.content = mergedContent,
                                 !.title = extractTitle(mergedContent),
                                 !.tags = mergedTags], t)
        mergedCard == pushHistory(upd.ret[1], t, mergedContent, "merge")
    IN  [err |-> "none",
         store |-> deleteCard(saveCard(upd.store, mergedCard), id2),
         ret |-> <<mergedCard>>]

mergeCardsWritesDeleteFirst(store, id1, id2, t) ==
    LET card1 == loadCard(store, id1)
        card2 == loadCard(store, id2)
        mergedContent == mergedContentOf(card1.content, card2.content)
        mergedTags == uniqueTags(card1.tags \o card2.tags)
        upd == updateCard(store, id1,
                 [NoPatch EXCEPT !.fields = {"content", "title", "tags"},
                                 !.content = mergedContent,
                                 !.title = extractTitle(mergedContent),
                                 !.tags = mergedTags], t)
        store2 == deleteCard(upd.store, id2)
    IN  <<upd.store, store2,
          saveCard(store2, pushHistory(upd.ret[1], t, mergedContent, "merge"))>>

\* CardManager.mergeCards on two persisted cards, write by write: the
\* store after the saveCard of updateCard, of the merged card with its merge
\* entry, and after the deleteCard
mergeCardsWrites(store, id1, id2, t) ==
    LET card1 == loadCard(store, id1)
        card2 == loadCard(store, id2)
        mergedContent == mergedContentOf(card1.content, card2.content)
        mergedTags == uniqueTags(card1.tags \o card2.tags)
        upd == updateCard(store, id1,
                 [NoPatch EXCEPT !.fields = {"content", "title", "tags"},
                                 !.content = mergedContent,
                                 !.title = extractTitle(mergedContent),
                                 !.tags = mergedTags], t)
        store2 == saveCard(upd.store,
                      pushHistory(upd.ret[1], t, mergedContent, "merge"))
    IN  <<upd.store, store2, deleteCard(store2, id2)>>

\* ChunkLayout: fields names the optional properties the object carries
Layout(type, fields, columns, spacing) ==
    [type |-> type, fields |-> fields, columns |-> columns,
     spacing |-> spacing]

\* layout.columns || 3 and layout.spacing || 20: an absent property and the
\* number 0 both give the default
columnsOf(layout) ==
    IF "columns" \in layout.fields /\ layout.columns # 0
    THEN layout.columns ELSE DefaultColumns

spacingOf(layout) ==
    IF "spacing" \in layout.fields /\ layout.spacing # 0
    THEN layout.spacing ELSE DefaultSpacing

\* the position autoArrangeCards computes for index i (zero-based)
arrangedPosition(layout, i) ==
    IF layout.type = "grid"
    THEN [x |-> (i % columnsOf(layout)) * (DefaultWidth + spacingOf(layout)),
          y |-> (i \div columnsOf(layout))
                  * (DefaultHeight + spacingOf(layout)),
          width |-> DefaultWidth, height |-> DefaultHeight]
    ELSE [x |-> i * (DefaultWidth + spacingOf(layout)), y |-> 0,
          width |-> DefaultWidth, height |-> DefaultHeight]

updateCardPositionEdited(store, id, position, t) ==
    updateCard(store, id,
        [NoPatch EXCEPT !.fields = {"position", "status"},
                        !.position = position, !.status = "edited"], t)

\* CardManager.updateCardPosition
updateCardPosition(store, id, position, t) ==
    updateCard(store, id,
        [NoPatch EXCEPT !.fields = {"position"}, !.position = position], t)

\* the cards of the ids that resolve, in the order of cardIds
RECURSIVE loadValid(_, _)
loadValid(store, cardIds) ==
    IF cardIds = <<>> THEN <<>>
    ELSE IF Persisted(store, Head(cardIds))
    THEN <<loadCard(store, Head(cardIds))>> \o loadValid(store, Tail(cardIds))
    ELSE loadValid(store, Tail(cardIds))

\* the loop of autoArrangeCards from index i (one-based here) on
RECURSIVE arrangeFrom(_, _, _, _, _)
arrangeFrom(store, validCards, i, layout, t) ==
    IF i > Len(validCards)
    THEN [err |-> "none", store |-> store, ret |-> validCards]
    ELSE LET upd == updateCardPosition(store, validCards[i].id,
                        arrangedPosition(layout, i - 1), t)
         IN  IF upd.err # "none"
             THEN [err |-> upd.err, store |-> upd.store, ret |-> <<>>]
             ELSE arrangeFrom(upd.store,
                      [validCards EXCEPT ![i] = upd.ret[1]], i + 1, layout, t)

autoArrangeCardsStrict(store, cardIds, layout, t) ==
    LET validCards == loadValid(store, cardIds)
    IN  IF \E i \in 1..Len(cardIds) : ~Persisted(store, cardIds[i])
        THEN [err |-> "NotFound", store |-> store, ret |-> <<>>]
        ELSE IF layout.type \in {"grid", "linear"}
        THEN arrangeFrom(store, validCards, 1, layout, t)
        ELSE [err |-> "none", store |-> store, ret |-> validCards]

\* CardManager.autoArrangeCards
autoArrangeCards(store, cardIds, layout, t) ==
    LET validCards == loadValid(store, cardIds)
    IN  IF layout.type \in {"grid", "linear"}
        THEN arrangeFrom(store, validCards, 1, layout, t)
        ELSE [err |-> "none", store |-> store, ret |-> validCards]

(* -------------------------- chunks and views --------------------------- *)

\* a ChunkLayout that carries autoArrange besides the properties of layout
AutoLayout(layout, autoArrange) ==
    [type |-> layout.type, fields |-> layout.fields \cup {"autoArrange"},
     columns |-> layout.columns, spacing |-> layout.spacing,
     autoArrange |-> autoArrange]

\* layout.autoArrange as a condition
autoArrangeOf(layout) == "autoArrange" \in layout.fields /\ layout.autoArrange

\* the default of the layout parameter of createChunk
DefaultLayout ==
    AutoLayout(Layout("grid", {"columns", "spacing"}, DefaultColumns,
                      DefaultSpacing), TRUE)

\* CardStorage.saveChunk, loadChunk, deleteChunk
saveChunk(store, chunk) ==
    [i \in DOMAIN store \cup {chunk.id} |->
        IF i = chunk.id THEN chunk ELSE store[i]]

loadChunk(store, id) == store[id]

deleteChunk(store, id) == [i \in DOMAIN store \ {id} |-> store[i]]

\* CardStorage.saveView, loadView, deleteView
saveView(store, view) ==
    [i \in DOMAIN store \cup {view.id} |->
        IF i = view.id THEN view ELSE store[i]]

loadView(store, id) == store[id]

deleteView(store, id) == [i \in DOMAIN store \ {id} |-> store[i]]

\* CardManager.createChunk: the chunk store and the card store afterwards
createChunk(cardStore, chunkStore, id, name, cardIds, purpose, layout, t) ==
    LET chunk == [id |-> id, name |-> name, cardIds |-> cardIds,
                  purpose |-> purpose, layout |-> layout]
        saved == saveChunk(chunkStore, chunk)
        arranged == autoArrangeCards(cardStore, cardIds, layout, t)
    IN  IF autoArrangeOf(layout) /\ Len(cardIds) > 0
        THEN [err |-> arranged.err, chunks |-> saved,
              cards |-> arranged.store, ret |-> <<chunk>>]
        ELSE [err |-> "none", chunks |-> saved, cards |-> cardStore,
              ret |-> <<chunk>>]

\* a Partial<ContentChunk>
NoChunkPatch ==
    [fields |-> {}, name |-> <<>>, cardIds |-> <<>>, purpose |-> <<>>,
     layout |-> DefaultLayout]

\* CardManager.updateChunk
updateChunk(cardStore, chunkStore, id, updates, t) ==
    IF ~Persisted(chunkStore, id)
    THEN [err |-> "NotFound", chunks |-> chunkStore, cards |-> cardStore,
          ret |-> <<>>]
    ELSE
    LET chunk == loadChunk(chunkStore, id)
        updatedChunk ==
            [id |-> chunk.id,
             name |-> IF Has(updates, "name") THEN updates.name
                      ELSE chunk.name,
             cardIds |-> IF Has(updates, "cardIds") THEN updates.cardIds
                         ELSE chunk.cardIds,
             purpose |-> IF Has(updates, "purpose") THEN updates.purpose
                         ELSE chunk.purpose,
             layout |-> IF Has(updates, "layout") THEN updates.layout
                        ELSE chunk.layout]
        saved == saveChunk(chunkStore, updatedChunk)
        arranged == autoArrangeCards(cardStore, updatedChunk.cardIds,
                        updatedChunk.layout, t)
    IN  IF /\ Has(updates, "layout") /\ autoArrangeOf(updates.layout)
           /\ Len(updatedChunk.cardIds) > 0
        THEN [err |-> arranged.err, chunks |-> saved,
              cards |-> arranged.store, ret |-> <<updatedChunk>>]
        ELSE [err |-> "none", chunks |-> saved, cards |-> cardStore,
              ret |-> <<updatedChunk>>]

\* the viewSettings createView seeds
DefaultViewSettings ==
    [zoom |-> 1, centerPoint |-> [x |-> 0, y |-> 0], showMetadata |-> TRUE,
     showConnections |-> FALSE, groupBy |-> "none"]

\* CardManager.createView before its saveView: the view object
newViewObject(id, name, description, chunkIds) ==
    [id |-> id, name |-> name, description |-> description,
     chunkIds |-> chunkIds, viewSettings |-> DefaultViewSettings]

\* a Partial<CardboardView>
NoViewPatch ==
    [fields |-> {}, name |-> <<>>, description |-> <<>>, chunkIds |-> <<>>,
     viewSettings |-> DefaultViewSettings]

\* an updateView that writes the patch as a new view when none is stored
updateViewUpsert(viewStore, id, updates) ==
    LET view == IF Persisted(viewStore, id) THEN loadView(viewStore, id)
                ELSE newViewObject(id, <<>>, <<>>, <<>>)
        updatedView ==
            [id |-> view.id,
             name |-> IF Has(updates, "name") THEN updates.name
                      ELSE view.name,
             description |-> IF Has(updates, "description")
                             THEN updates.description ELSE view.description,
             chunkIds |-> IF Has(updates, "chunkIds") THEN updates.chunkIds
                          ELSE view.chunkIds,
             viewSettings |-> IF Has(updates, "viewSettings")
                              THEN updates.viewSettings
                              ELSE view.viewSettings]
    IN  [err |-> IF Persisted(viewStore, id) THEN "none" ELSE "NotFound",
         views |-> saveView(viewStore, updatedView),
         ret |-> IF Persisted(viewStore, id) THEN <<updatedView>> ELSE <<>>]

\* CardManager.updateView
updateView(viewStore, id, updates) ==
    IF ~Persisted(viewStore, id)
    THEN [err |-> "NotFound", views |-> viewStore, ret |-> <<>>]
    ELSE
    LET view == loadView(viewStore, id)
        updatedView ==
            [id |-> view.id,
             name |-> IF Has(updates, "name") THEN updates.name
                      ELSE view.name,
             description |-> IF Has(updates, "description")
                             THEN updates.description ELSE view.description,
             chunkIds |-> IF Has(updates, "chunkIds") THEN updates.chunkIds
                          ELSE view.chunkIds,
             viewSettings |-> IF Has(updates, "viewSettings")
                              THEN updates.viewSettings
                              ELSE view.viewSettings]
    IN  [err |-> "none", views |-> saveView(viewStore, updatedView),
         ret |-> <<updatedView>>]

\* a deleteCard that also takes the id out of the cardIds of every chunk
CardManager_deleteCardUnlink(cardStore, chunkStore, viewStore, id) ==
    [cards |-> deleteCard(cardStore, id),
     chunks |-> [c \in DOMAIN chunkStore |->
                   [chunkStore[c] EXCEPT !.cardIds =
                       SelectSeq(@, LAMBDA i : i # id)]],
     views |-> viewStore,
     ret |-> Persisted(cardStore, id)]

\* CardManager.deleteCard: the three directories afterwards and the result
CardManager_deleteCard(cardStore, chunkStore, viewStore, id) ==
    [cards |-> deleteCard(cardStore, id),
     chunks |-> chunkStore,
     views |-> viewStore,
     ret |-> Persisted(cardStore, id)]

\* a deleteChunk that also deletes the cards of the chunk
CardManager_deleteChunkCascade(cardStore, chunkStore, viewStore, id) ==
    [cards |-> IF Persisted(chunkStore, id)
               THEN [i \in DOMAIN cardStore \
                          {chunkStore[id].cardIds[k] :
                              k \in DOMAIN chunkStore[id].cardIds} |->
                        cardStore[i]]
               ELSE cardStore,
     chunks |-> deleteChunk(chunkStore, id),
     views |-> viewStore,
     ret |-> Persisted(chunkStore, id)]

\* CardManager.deleteChunk: the three directories afterwards and the result
CardManager_deleteChunk(cardStore, chunkStore, viewStore, id) ==
    [cards |-> cardStore,
     chunks |-> deleteChunk(chunkStore, id),
     views |-> viewStore,
     ret |-> Persisted(chunkStore, id)]

(* ------------------------- import and export --------------------------- *)

sImportedText ==
    <<"i", "m", "p", "o", "r", "t", "e", "d", "-", "t", "e", "x", "t">>

\* the segments importTextAsCards makes cards of
segmentsOf(text, splitBy) ==
    IF splitBy = "paragraph"
    THEN SelectSeq(splitBlankLines(text), LAMBDA s : Len(trim(s)) > 0)
    ELSE IF splitBy = "sentence"
    THEN SelectSeq(splitRuns(text, SentenceEnd), LAMBDA s : Len(trim(s)) > 0)
    ELSE <<text>>

\* the position importTextAsCards gives the card of segment i (zero-based)
importPosition(i) ==
    [x |-> (i % ImportColumns) * ImportCellWidth,
     y |-> (i \div ImportColumns) * ImportCellHeight,
     width |-> DefaultWidth, height |-> DefaultHeight]

\* CardManager.importTextAsCards; the cards get the ids firstId, firstId + 1
\* and so on, the chunk gets chunkId
importTextAsCards(cardStore, chunkStore, text, chunkName, splitBy, firstId, chunkId, t) ==
    LET segments == segmentsOf(text, splitBy)
        card(i) == LET content == trim(segments[i])
                   IN  newCardObject(firstId + i - 1, content,
                           extractTitle(content), <<>>, TRUE,
                           importPosition(i - 1), t)
        saved[i \in 0..Len(segments)] ==
            IF i = 0 THEN cardStore ELSE saveCard(saved[i - 1], card(i))
        cardIds == [i \in 1..Len(segments) |-> firstId + i - 1]
    IN  createChunk(saved[Len(segments)], chunkStore, chunkId, chunkName,
            cardIds, sImportedText, DefaultLayout, t)

\* Array.prototype.join(sep)
RECURSIVE join(_, _)
join(strings, sep) ==
    IF strings = <<>> THEN <<>>
    ELSE IF Len(strings) = 1 THEN strings[1]
    ELSE strings[1] \o sep \o join(Tail(strings), sep)

\* the contents of the cards of cardIds, an empty content for a card that
\* is not persisted
RECURSIVE contentsOrEmpty(_, _)
contentsOrEmpty(cardStore, cardIds) ==
    IF cardIds = <<>> THEN <<>>
    ELSE <<IF Persisted(cardStore, Head(cardIds))
           THEN loadCard(cardStore, Head(cardIds)).content ELSE <<>>>>
         \o contentsOrEmpty(cardStore, Tail(cardIds))

exportChunkAsTextPlaceholder(cardStore, chunkStore, chunkId) ==
    IF ~Persisted(chunkStore, chunkId)
    THEN [err |-> "NotFound", ret |-> <<>>]
    ELSE [err |-> "none",
          ret |-> join(contentsOrEmpty(cardStore,
                           loadChunk(chunkStore, chunkId).cardIds),
                       Newline2)]

\* CardManager.exportChunkAsText of the file-backed manager
exportChunkAsText(cardStore, chunkStore, chunkId) ==
    IF ~Persisted(chunkStore, chunkId)
    THEN [err |-> "NotFound", ret |-> <<>>]
    ELSE LET validCards ==
                 loadValid(cardStore, loadChunk(chunkStore, chunkId).cardIds)
         IN  [err |-> "none",
              ret |-> join([i \in DOMAIN validCards |->
                               validCards[i].content], Newline2)]

\* CardManager.exportChunkAsText of the in-memory manager (part_001), its
\* maps of cards and chunks given as cardStore and chunkStore
exportChunkAsTextInMemory(cardStore, chunkStore, chunkId) ==
    IF ~Persisted(chunkStore, chunkId)
    THEN [err |-> "none", ret |-> <<>>]
    ELSE LET validCards == loadValid(cardStore, chunkStore[chunkId].cardIds)
         IN  [err |-> "none",
              ret |-> join([i \in DOMAIN validCards |->
                               validCards[i].content], Newline2)]

\* the loop of exportViewAsText over chunkIds: exportText, or the error of
\* the first exportChunkAsText that throws; inMemory tells which of the two
\* managers getCardManager returned
RECURSIVE exportTextOf(_, _, _, _)
exportTextOf(cardStore, chunkStore, chunkIds, inMemory) ==
    IF chunkIds = <<>> THEN [err |-> "none", ret |-> <<>>]
    ELSE LET chunk == IF inMemory
                      THEN exportChunkAsTextInMemory(cardStore, chunkStore,
                               Head(chunkIds))
                      ELSE exportChunkAsText(cardStore, chunkStore,
                               Head(chunkIds))
             rest == exportTextOf(cardStore, chunkStore, Tail(chunkIds),
                         inMemory)
         IN  IF chunk.err # "none" THEN [err |-> chunk.err, ret |-> <<>>]
             ELSE IF rest.err # "none" THEN rest
             ELSE [err |-> "none", ret |-> chunk.ret \o Newline2 \o rest.ret]

\* CardboardService.exportViewAsText
exportViewAsText(cardStore, chunkStore, viewStore, viewId, inMemory) ==
    IF ~Persisted(viewStore, viewId)
    THEN [err |-> "NotFound", ret |-> <<>>]
    ELSE LET r == exportTextOf(cardStore, chunkStore,
                      loadView(viewStore, viewId).chunkIds, inMemory)
         IN  IF r.err # "none" THEN [err |-> r.err, ret |-> <<>>]
             ELSE [err |-> "none", ret |-> trim(r.ret)]

(* ------------------------------- inputs -------------------------------- *)

Ids == 1..MaxIds

sA == <<"a">>

sAB == <<" ", "a", " ", "b">>

sPara == <<"a", "\n", "\n", "b">>

Contents == {<<>>, sA, sAB, sPara}

Position1 == [x |-> 10, y |-> 5, width |-> 100, height |-> 50]

\* the arguments of createCard
CreateArgs ==
    {[content |-> c, title |-> <<>>, tags |-> <<>>, hasPosition |-> FALSE,
      position |-> DefaultPosition] : c \in Contents}
    \cup {[content |-> sPara, title |-> <<"T">>, tags |-> <<"x">>,
           hasPosition |-> TRUE, position |-> Position1]}

ContentPatch(c) == [NoPatch EXCEPT !.fields = {"content"}, !.content = c]

\* the patches of updateCard on card id; a patch that carries an id carries
\* one that generateCardId has returned before (issued), as the caller has
\* no other ids and a later generateCardId never returns it again
Patches(id, issued) ==
    {NoPatch}
    \cup {ContentPatch(c) : c \in Contents}
    \cup {[NoPatch EXCEPT !.fields = {"title", "status", "tags"},
                          !.title = <<"T">>, !.status = "edited",
                          !.tags = <<"y">>],
          [NoPatch EXCEPT !.fields = {"metadata"},
                          !.metaFields = {"wordCount", "createdAt"},
                          !.metadata.wordCount = 7],
          [NoPatch EXCEPT !.fields = {"content", "metadata"},
                          !.content = sA,
                          !.metaFields = {"wordCount"},
                          !.metadata.wordCount = 7],
          [NoPatch EXCEPT !.fields = {"history"}]}
    \cup {[NoPatch EXCEPT !.fields = {"id"}, !.id = j] : j \in issued \ {id}}

\* every patch of updateCard on any card
AllPatches == Patches(0, 1..MaxIds)

ArrangeLists == {<<1>>, <<2, 1>>, <<1, 2, 1, 1>>}

Layouts ==
    {Layout("grid", {}, 0, 0), Layout("linear", {"spacing"}, 0, 10),
     Layout("grid", {"columns", "spacing"}, 2, 0),
     Layout("freeform", {}, 0, 0)}

\* the inputs of the operations on cards in the specification of the whole
\* store
StoreCreateArgs ==
    {[content |-> sAB, title |-> <<>>, tags |-> <<>>, hasPosition |-> hp,
      position |-> Position1] : hp \in BOOLEAN}

StorePatches == {ContentPatch(sA)}

StoreSplitPoints == {0, 2}

ChunkIds == 1..MaxChunks

ViewIds == 1..MaxViews

sName == <<"n">>

sGeneral == <<"g">>

LinearLayout == AutoLayout(Layout("linear", {}, 0, 0), FALSE)

CreateChunkArgs ==
    {[cardIds |-> c, layout |-> l] :
        c \in {<<>>, <<2, 1>>}, l \in {DefaultLayout, LinearLayout}}

ChunkPatches ==
    {[NoChunkPatch EXCEPT !.fields = {"name"}, !.name = <<"m">>],
     [NoChunkPatch EXCEPT !.fields = {"cardIds"}, !.cardIds = <<1>>],
     [NoChunkPatch EXCEPT !.fields = {"layout"}, !.layout = DefaultLayout]}

ViewPatches ==
    {[NoViewPatch EXCEPT !.fields = {"name"}, !.name = <<"m">>],
     [NoViewPatch EXCEPT !.fields = {"viewSettings"},
         !.viewSettings = [DefaultViewSettings EXCEPT !.zoom = 2]],
     [NoViewPatch EXCEPT !.fields = {"viewSettings"},
         !.viewSettings = [DefaultViewSettings EXCEPT !.zoom = 0]]}

\* the split points tried on a card: every offset of its content and one
\* beyond each end
SplitPoints(id) ==
    -1..(IF Persisted(cards, id) THEN Len(cards[id].content) + 1 ELSE 0)

(* ---------------------------- state machine ---------------------------- *)

NoOp == [op |-> "none", err |-> "none"]

\* a CardboardService after construction: cardManagerMap is empty; created
\* counts the CardManager objects constructed, disposed the dispose calls
NoService == [map |-> <<>>, created |-> 0, disposed |-> 0]

Init ==
    /\ cards = <<>>
    /\ chunks = <<>>
    /\ views = <<>>
    /\ nextId = 1
    /\ nextChunkId = 1
    /\ nextViewId = 1
    /\ now = 1
    /\ last = NoOp
    /\ calls = <<>>
    /\ service = NoService
    /\ files = <<>>

CreateCardOf(Args) ==
    /\ now <= MaxClock
    /\ nextId <= MaxIds
    /\ \E a \in Args :
         LET card == newCardObject(nextId, a.content, a.title, a.tags,
                         a.hasPosition, a.position, now)
         IN  /\ cards' = saveCard(cards, card)
             /\ last' = [op |-> "createCard", err |-> "none", args |-> a,
                         ret |-> <<card>>]
    /\ nextId' = nextId + 1
    /\ now' = now + 1
    /\ UNCHANGED <<chunkVars, asyncVars>>

CreateCard == CreateCardOf(CreateArgs)

UpdateCardOf(Only) ==
    /\ now <= MaxClock
    /\ \E id \in Ids : \E u \in Patches(id, 1..(nextId - 1)) \cap Only :
         LET r == updateCard(cards, id, u, now)
         IN  /\ cards' = r.store
             /\ last' = [op |-> "updateCard", err |-> r.err, id |-> id,
                         updates |-> u, ret |-> r.ret]
    /\ now' = now + 1
    /\ UNCHANGED <<chunkVars, asyncVars>>
    /\ UNCHANGED nextId

UpdateCard == UpdateCardOf(AllPatches)

DeleteCard ==
    /\ now <= MaxClock
    /\ \E id \in Ids :
         LET r == CardManager_deleteCard(cards, chunks, views, id)
         IN  /\ cards' = r.cards
             /\ chunks' = r.chunks
             /\ views' = r.views
             /\ last' = [op |-> "deleteCard", err |-> "none", id |-> id,
                         ret |-> r.ret]
    /\ now' = now + 1
    /\ UNCHANGED <<nextId, nextChunkId, nextViewId, asyncVars>>

SplitCardOf(Only) ==
    /\ now <= MaxClock
    /\ nextId <= MaxIds
    /\ \E id \in Ids :
         \E p \in SplitPoints(id) \cap Only :
           LET r == splitCard(cards, id, p, nextId, now)
           IN  /\ cards' = r.store
               /\ last' = [op |-> "splitCard", err |-> r.err, id |-> id,
                           splitPoint |-> p, newId |-> nextId, ret |-> r.ret,
                           content |-> IF Persisted(cards, id)
                                       THEN cards[id].content ELSE <<>>]
               \* generateCardId is called only after the card was loaded
               /\ nextId' = IF r.err = "none" THEN nextId + 1 ELSE nextId
    /\ now' = now + 1
    /\ UNCHANGED <<chunkVars, asyncVars>>

SplitCard == SplitCardOf(Int)

MergeCards ==
    /\ now <= MaxClock
    /\ \E id1 \in Ids, id2 \in Ids :
         LET r == mergeCards(cards, id1, id2, now)
         IN  /\ cards' = r.store
             /\ last' = [op |-> "mergeCards", err |-> r.err, id |-> id1,
                         id2 |-> id2, ret |-> r.ret,
                         \* the content and split point of the split this
                         \* merge undoes, when it directly follows one
                         undoes |->
                           IF /\ last.op = "splitCard" /\ last.err = "none"
                              /\ id1 = last.id /\ id2 = last.newId
                           THEN <<[content |-> last.content,
                                   splitPoint |-> last.splitPoint]>>
                           ELSE <<>>]
    /\ now' = now + 1
    /\ UNCHANGED <<chunkVars, asyncVars>>
    /\ UNCHANGED nextId

AutoArrangeCards ==
    /\ now <= MaxClock
    /\ \E cardIds \in ArrangeLists, layout \in Layouts :
         LET r == autoArrangeCards(cards, cardIds, layout, now)
         IN  /\ cards' = r.store
             /\ last' = [op |-> "autoArrangeCards", err |-> r.err,
                         cardIds |-> cardIds, layout |-> layout,
                         ret |-> r.ret]
    /\ now' = now + 1
    /\ UNCHANGED <<chunkVars, asyncVars>>
    /\ UNCHANGED nextId

Next ==
    \/ CreateCard
    \/ UpdateCard
    \/ DeleteCard
    \/ SplitCard
    \/ MergeCards
    \/ AutoArrangeCards

Spec == Init /\ [][Next]_vars

(* --------------------- the store of all three kinds -------------------- *)

CreateChunk ==
    /\ now <= MaxClock
    /\ nextChunkId <= MaxChunks
    /\ \E a \in CreateChunkArgs :
         LET r == createChunk(cards, chunks, nextChunkId, sName, a.cardIds,
                      sGeneral, a.layout, now)
         IN  /\ chunks' = r.chunks
             /\ cards' = r.cards
             /\ last' = [op |-> "createChunk", err |-> r.err,
                         id |-> nextChunkId, ret |-> r.ret]
    /\ nextChunkId' = nextChunkId + 1
    /\ now' = now + 1
    /\ UNCHANGED <<views, nextId, nextViewId, asyncVars>>

UpdateChunk ==
    /\ now <= MaxClock
    /\ \E id \in ChunkIds, u \in ChunkPatches :
         LET r == updateChunk(cards, chunks, id, u, now)
         IN  /\ chunks' = r.chunks
             /\ cards' = r.cards
             /\ last' = [op |-> "updateChunk", err |-> r.err, id |-> id,
                         updates |-> u, ret |-> r.ret]
    /\ now' = now + 1
    /\ UNCHANGED <<views, nextId, nextChunkId, nextViewId, asyncVars>>

DeleteChunkOf(Only) ==
    /\ now <= MaxClock
    /\ \E id \in Only :
         LET r == CardManager_deleteChunk(cards, chunks, views, id)
         IN  /\ cards' = r.cards
             /\ chunks' = r.chunks
             /\ views' = r.views
             /\ last' = [op |-> "deleteChunk", err |-> "none", id |-> id,
                         ret |-> r.ret]
    /\ now' = now + 1
    /\ UNCHANGED <<nextId, nextChunkId, nextViewId, asyncVars>>

DeleteChunk == DeleteChunkOf(ChunkIds)

CreateView ==
    /\ now <= MaxClock
    /\ nextViewId <= MaxViews
    /\ \E chunkIds \in {<<>>, <<1>>} :
         LET view == newViewObject(nextViewId, sName, <<>>, chunkIds)
         IN  /\ views' = saveView(views, view)
             /\ last' = [op |-> "createView", err |-> "none",
                         id |-> nextViewId, ret |-> <<view>>]
    /\ nextViewId' = nextViewId + 1
    /\ now' = now + 1
    /\ UNCHANGED <<cards, chunks, nextId, nextChunkId, asyncVars>>

UpdateView ==
    /\ now <= MaxClock
    /\ \E id \in ViewIds, u \in ViewPatches :
         LET r == updateView(views, id, u)
         IN  /\ views' = r.views
             /\ last' = [op |-> "updateView", err |-> r.err, id |-> id,
                         updates |-> u, ret |-> r.ret]
    /\ now' = now + 1
    /\ UNCHANGED <<cards, chunks, nextId, nextChunkId, nextViewId, asyncVars>>

DeleteView ==
    /\ now <= MaxClock
    /\ \E id \in ViewIds :
         /\ views' = deleteView(views, id)
         /\ last' = [op |-> "deleteView", err |-> "none", id |-> id,
                     ret |-> Persisted(views, id)]
    /\ now' = now + 1
    /\ UNCHANGED <<cards, chunks, nextId, nextChunkId, nextViewId, asyncVars>>

StoreCreateCard == CreateCardOf(StoreCreateArgs)

StoreUpdateCard == UpdateCardOf(StorePatches)

StoreSplitCard == SplitCardOf(StoreSplitPoints)

NextStore ==
    \/ StoreCreateCard
    \/ StoreUpdateCard
    \/ StoreSplitCard
    \/ MergeCards
    \/ CreateChunk
    \/ UpdateChunk
    \/ DeleteChunk
    \/ CreateView
    \/ UpdateView
    \/ DeleteView

SpecStore == Init /\ [][NextStore]_vars

(* -------------------- calls interleaved on one file -------------------- *)

\* the card all calls are about
TargetId == 1

\* a call of the manager that has not started
Call(op, updates) ==
    [op |-> op, updates |-> updates, pc |-> "start", updated |-> <<>>,
     pending |-> <<>>, err |-> "none", ret |-> <<>>, savedAt |-> 0]

CallsOf ==
    {Call("updateCard", u) : u \in {NoPatch, ContentPatch(sAB)}}
    \cup {Call("getCard", NoPatch), Call("getAllCards", NoPatch)}

\* one card is persisted by a createCard that has returned, and MaxCalls
\* calls are made before any of them proceeds
InitFile ==
    /\ cards = <<>>
    /\ chunks = <<>>
    /\ views = <<>>
    /\ nextId = 2
    /\ nextChunkId = 1
    /\ nextViewId = 1
    /\ now = 2
    /\ \E c \in {sA, sPara} :
         LET card == newCardObject(TargetId, c, <<>>, <<>>, FALSE,
                         DefaultPosition, 1)
         IN  /\ files = (TargetId :> FileOf(card))
             /\ last = [op |-> "createCard", err |-> "none",
                        ret |-> <<card>>]
    /\ calls \in [1..MaxCalls -> CallsOf]
    /\ service = NoService

fileFrame ==
    UNCHANGED <<cards, chunks, views, nextId, nextChunkId, nextViewId, last,
                service>>

\* updateCard up to its saveCard: loadCard, then the updated card is built
UpdateLoad(i) ==
    /\ calls[i].op = "updateCard" /\ calls[i].pc = "start"
    /\ LET r == readCard(files, TargetId)
       IN  calls' =
             [calls EXCEPT ![i] =
                IF r.err # "none" THEN [@ EXCEPT !.pc = "done", !.err = r.err]
                ELSE IF r.ret = <<>>
                THEN [@ EXCEPT !.pc = "done", !.err = "NotFound"]
                ELSE [@ EXCEPT !.pc = "open",
                         !.updated = <<updatedCardObject(r.ret[1],
                                          calls[i].updates, now)>>]]
    /\ now' = now + 1
    /\ UNCHANGED files
    /\ fileFrame

\* saveCard: fs.writeFile opens the file
SaveOpen(i) ==
    /\ calls[i].pc = "open"
    /\ files' = openTruncate(files, calls[i].updated[1].id)
    /\ calls' = [calls EXCEPT ![i].pc = "write"]
    /\ now' = now + 1
    /\ fileFrame

\* saveCard: fs.writeFile writes the text and closes; updateCard returns
SaveWrite(i) ==
    /\ calls[i].pc = "write"
    /\ files' = writeData(files, calls[i].updated[1].id, calls[i].updated[1])
    /\ calls' = [calls EXCEPT ![i].pc = "done", ![i].ret = calls[i].updated,
                               ![i].savedAt = now]
    /\ now' = now + 1
    /\ fileFrame

\* CardManager.getCard: loadCard
GetCard(i) ==
    /\ calls[i].op = "getCard" /\ calls[i].pc = "start"
    /\ LET r == readCard(files, TargetId)
       IN  calls' = [calls EXCEPT ![i].pc = "done", ![i].err = r.err,
                                  ![i].ret = r.ret]
    /\ now' = now + 1
    /\ UNCHANGED files
    /\ fileFrame

\* CardManager.getAllCards: loadAllCards lists the directory
GetAllReaddir(i) ==
    /\ calls[i].op = "getAllCards" /\ calls[i].pc = "start"
    /\ LET ids == DOMAIN files
           listed[n \in 0..nextId] ==
               IF n = 0 THEN <<>>
               ELSE IF n \in ids THEN Append(listed[n - 1], n)
               ELSE listed[n - 1]
       IN  calls' = [calls EXCEPT ![i].pending = listed[nextId],
                        ![i].pc = IF ids = {} THEN "done" ELSE "read"]
    /\ now' = now + 1
    /\ UNCHANGED files
    /\ fileFrame

\* loadAllCards: loadCard of the next listed file
GetAllRead(i) ==
    /\ calls[i].pc = "read"
    /\ LET r == readCard(files, Head(calls[i].pending))
           rest == Tail(calls[i].pending)
       IN  calls' =
             [calls EXCEPT ![i] =
                IF r.err # "none" THEN [@ EXCEPT !.pc = "done", !.err = r.err]
                ELSE [@ EXCEPT !.ret = @ \o r.ret, !.pending = rest,
                         !.pc = IF rest = <<>> THEN "done" ELSE "read"]]
    /\ now' = now + 1
    /\ UNCHANGED files
    /\ fileFrame

NextFile ==
    \/ \E i \in DOMAIN calls : UpdateLoad(i)
    \/ \E i \in DOMAIN calls : SaveOpen(i)
    \/ \E i \in DOMAIN calls : SaveWrite(i)
    \/ \E i \in DOMAIN calls : GetCard(i)
    \/ \E i \in DOMAIN calls : GetAllReaddir(i)
    \/ \E i \in DOMAIN calls : GetAllRead(i)

SpecFile == InitFile /\ [][NextFile]_vars

(* ------------------ failure between writes, and retry ------------------ *)

RetryCreateArgs ==
    {[content |-> c, title |-> <<>>, tags |-> <<>>, hasPosition |-> hp,
      position |-> Position1] : c \in {sAB, sPara}, hp \in BOOLEAN}

\* no call has failed and is waiting for its retry
NoneFailed == last.err # "IOError"

RetryCreateCard == NoneFailed /\ CreateCardOf(RetryCreateArgs)

\* splitCard that fails with an I/O error after k of its four writes
SplitCardFails ==
    /\ NoneFailed
    /\ now <= MaxClock
    /\ nextId <= MaxIds
    /\ \E id \in DOMAIN cards, k \in 1..3 :
         \E p \in 1..(Len(cards[id].content) - 1) :
           /\ cards' = splitCardWrites(cards, id, p, nextId, now)[k]
           /\ last' = [op |-> "splitCard", err |-> "IOError", id |-> id,
                       splitPoint |-> p, writes |-> k, before |-> cards]
           \* generateCardId is called by createCard, after the first write
           /\ nextId' = IF k >= 2 THEN nextId + 1 ELSE nextId
    /\ now' = now + 1
    /\ UNCHANGED <<chunkVars, asyncVars>>

\* the caller calls the failed splitCard again, and it completes
SplitCardRetry ==
    /\ last.op = "splitCard" /\ last.err = "IOError"
    /\ LET r == splitCard(cards, last.id, last.splitPoint, nextId, now)
       IN  /\ cards' = r.store
           /\ last' = [op |-> "splitCardRetry", err |-> r.err,
                       id |-> last.id, splitPoint |-> last.splitPoint,
                       writes |-> last.writes, before |-> last.before,
                       ret |-> r.ret]
    /\ nextId' = nextId + 1
    /\ now' = now + 1
    /\ UNCHANGED <<chunkVars, asyncVars>>

\* mergeCards that fails with an I/O error after k of its writes, before
\* the deleteCard
MergeCardsFails ==
    /\ NoneFailed
    /\ now <= MaxClock
    /\ \E id1 \in DOMAIN cards, id2 \in DOMAIN cards, k \in 1..2 :
         /\ id1 # id2
         /\ cards' = mergeCardsWrites(cards, id1, id2, now)[k]
         /\ last' = [op |-> "mergeCards", err |-> "IOError", id |-> id1,
                     id2 |-> id2, writes |-> k, before |-> cards]
    /\ now' = now + 1
    /\ UNCHANGED <<nextId, chunkVars, asyncVars>>

\* the caller calls the failed mergeCards again, and it completes
MergeCardsRetry ==
    /\ last.op = "mergeCards" /\ last.err = "IOError"
    /\ LET r == mergeCards(cards, last.id, last.id2, now)
       IN  /\ cards' = r.store
           /\ last' = [op |-> "mergeCardsRetry", err |-> r.err,
                       id |-> last.id, id2 |-> last.id2,
                       writes |-> last.writes, before |-> last.before,
                       ret |-> r.ret]
    /\ now' = now + 1
    /\ UNCHANGED <<nextId, chunkVars, asyncVars>>

NextRetry ==
    \/ RetryCreateCard
    \/ SplitCardFails
    \/ SplitCardRetry
    \/ MergeCardsFails
    \/ MergeCardsRetry

SpecRetry == Init /\ [][NextRetry]_vars

(* --------------------------- CardboardService -------------------------- *)

Roots == {1, 2}

\* getCardManager up to its await: has() is tested; when it is false, a
\* CardManager is constructed and initialize is called and awaited; when it
\* is true, the entry of the map is returned
GetCardManagerStart ==
    /\ Len(calls) < MaxGets
    /\ \E root \in Roots :
         IF root \in DOMAIN service.map
         THEN /\ calls' = Append(calls,
                     [op |-> "getCardManager", root |-> root, pc |-> "done",
                      instance |-> 0, ret |-> service.map[root],
                      disposed |-> service.disposed, spanned |-> FALSE])
              /\ UNCHANGED service
         ELSE /\ calls' = Append(calls,
                     [op |-> "getCardManager", root |-> root, pc |-> "await",
                      instance |-> service.created + 1, ret |-> 0,
                      disposed |-> service.disposed, spanned |-> FALSE])
              /\ service' = [service EXCEPT !.created = @ + 1]
    /\ UNCHANGED <<cards, chunks, views, nextId, nextChunkId, nextViewId, now,
                   last, files>>

\* getCardManager after its await: the manager is put into the map and the
\* entry of the map is returned
GetCardManagerResume ==
    /\ \E i \in DOMAIN calls :
         /\ calls[i].pc = "await"
         /\ LET root == calls[i].root
                map == [r \in DOMAIN service.map \cup {root} |->
                           IF r = root THEN calls[i].instance
                           ELSE service.map[r]]
            IN  /\ service' = [service EXCEPT !.map = map]
                /\ calls' = [calls EXCEPT ![i].pc = "done",
                                ![i].ret = map[root],
                                ![i].spanned =
                                    calls[i].disposed # service.disposed]
    /\ UNCHANGED <<cards, chunks, views, nextId, nextChunkId, nextViewId, now,
                   last, files>>

\* CardboardService.dispose
Dispose ==
    /\ service.disposed < MaxDisposes
    /\ service' = [service EXCEPT !.map = <<>>, !.disposed = @ + 1]
    /\ UNCHANGED <<cards, chunks, views, nextId, nextChunkId, nextViewId, now,
                   last, calls, files>>

NextService ==
    \/ GetCardManagerStart
    \/ GetCardManagerResume
    \/ Dispose

SpecService == Init /\ [][NextService]_vars

(* ----------------------- merging two tagged cards ---------------------- *)

Tags == {"x", "y"}

TagLists == UNION {[1..n -> Tags] : n \in 0..MaxTags}

\* two cards are persisted by two createCard calls that have returned
InitMerge ==
    /\ \E tags1 \in TagLists, tags2 \in TagLists :
         cards = saveCard(saveCard(<<>>,
                     newCardObject(1, sA, <<>>, tags1, FALSE,
                         DefaultPosition, 1)),
                     newCardObject(2, sAB, <<>>, tags2, FALSE,
                         DefaultPosition, 2))
    /\ chunks = <<>>
    /\ views = <<>>
    /\ nextId = 3
    /\ nextChunkId = 1
    /\ nextViewId = 1
    /\ now = 3
    /\ last = NoOp
    /\ calls = <<>>
    /\ service = NoService
    /\ files = <<>>

NextMerge == MergeCards

SpecMerge == InitMerge /\ [][NextMerge]_vars

(* --------------------------- import of a text -------------------------- *)

TextAlphabet == {"a", " ", "\n", "."}

Texts == UNION {[1..n -> TextAlphabet] : n \in 0..MaxText}

SplitBys == {"paragraph", "sentence", "custom"}

\* the store is empty and one importTextAsCards call has been made
InitImport ==
    /\ cards = <<>>
    /\ chunks = <<>>
    /\ views = <<>>
    /\ nextId = 1
    /\ nextChunkId = 1
    /\ nextViewId = 1
    /\ now = 1
    /\ last = NoOp
    /\ \E text \in Texts, splitBy \in SplitBys :
         calls = <<[op |-> "importTextAsCards", text |-> text,
                    splitBy |-> splitBy, pc |-> "start"]>>
    /\ service = NoService
    /\ files = <<>>

ImportTextAsCards ==
    /\ calls[1].pc = "start"
    /\ LET r == importTextAsCards(cards, chunks, calls[1].text, sName,
                    calls[1].splitBy, nextId, nextChunkId, now)
       IN  /\ cards' = r.cards
           /\ chunks' = r.chunks
           /\ nextId' = nextId + Len(r.ret[1].cardIds)
           /\ last' = [op |-> "importTextAsCards", err |-> r.err,
                       text |-> calls[1].text, splitBy |-> calls[1].splitBy,
                       ret |-> r.ret]
    /\ calls' = [calls EXCEPT ![1].pc = "done"]
    /\ nextChunkId' = nextChunkId + 1
    /\ now' = now + 1
    /\ UNCHANGED <<views, nextViewId, service, files>>

NextImport == ImportTextAsCards

SpecImport == InitImport /\ [][NextImport]_vars

(* ------------------- export and deletion with a chunk ------------------ *)

sATrail == <<"a", " ">>

ExportContents == {<<>>, sA, sAB, sATrail}

ExportCardIds == {<<1, 2>>, <<2, 1>>, <<2, 1, 2>>}

\* two createCard calls, a createChunk without autoArrange and a createView
\* have returned; the clock leaves room for two more operations
InitExport ==
    /\ \E c1 \in ExportContents, c2 \in ExportContents :
         cards = saveCard(saveCard(<<>>,
                     newCardObject(1, c1, <<>>, <<>>, FALSE, DefaultPosition,
                         MaxClock - 3)),
                     newCardObject(2, c2, <<>>, <<>>, FALSE, DefaultPosition,
                         MaxClock - 2))
    /\ \E cardIds \in ExportCardIds :
         chunks = createChunk(<<>>, <<>>, 1, sName, cardIds, sGeneral,
                      LinearLayout, MaxClock - 1).chunks
    /\ views = saveView(<<>>, newViewObject(1, sName, <<>>, <<1>>))
    /\ nextId = 3
    /\ nextChunkId = 2
    /\ nextViewId = 2
    /\ now = MaxClock - 1
    /\ last = NoOp
    /\ calls = <<>>
    /\ service = NoService
    /\ files = <<>>

\* exportChunkAsText of both managers on the same cards and chunks; it reads
\* no clock
ExportChunkAsText ==
    /\ \E id \in ChunkIds \cup {nextChunkId} :
         LET r == exportChunkAsText(cards, chunks, id)
             m == exportChunkAsTextInMemory(cards, chunks, id)
         IN  last' = [op |-> "exportChunkAsText", err |-> r.err, id |-> id,
                      ret |-> r.ret, inMemory |-> m]
    /\ UNCHANGED <<cards, chunks, views, nextId, nextChunkId, nextViewId, now,
                   asyncVars>>

NextExport ==
    \/ DeleteCard
    \/ DeleteChunk
    \/ ExportChunkAsText

SpecExport == InitExport /\ [][NextExport]_vars

(* ------------------------ the store on its own ------------------------- *)

Kinds == {"card", "chunk", "view"}

\* the directory of a kind among the three given
Directory(kind, cardDir, chunkDir, viewDir) ==
    CASE kind = "card" -> cardDir
      [] kind = "chunk" -> chunkDir
      [] kind = "view" -> viewDir

StorageLoad ==
    /\ \E kind \in Kinds, id \in Ids, fault \in Faults :
         LET r == CardStorage_load(Directory(kind, cards, chunks, views), id,
                      fault)
         IN  last' = [op |-> "load", kind |-> kind, id |-> id,
                      fault |-> fault, err |-> r.err, ret |-> r.ret]
    /\ UNCHANGED <<cards, chunks, views, nextId, nextChunkId, nextViewId, now,
                   asyncVars>>

StorageDelete ==
    /\ now <= MaxClock
    /\ \E kind \in Kinds, id \in Ids, fault \in Faults :
         LET r == CardStorage_delete(Directory(kind, cards, chunks, views),
                      id, fault)
         IN  /\ cards' = IF kind = "card" THEN r.dir ELSE cards
             /\ chunks' = IF kind = "chunk" THEN r.dir ELSE chunks
             /\ views' = IF kind = "view" THEN r.dir ELSE views
             /\ last' = [op |-> "delete", kind |-> kind, id |-> id,
                         fault |-> fault, err |-> r.err, ret |-> r.ret]
    /\ now' = now + 1
    /\ UNCHANGED <<nextId, nextChunkId, nextViewId, asyncVars>>

\* the directory of an empty kind may be missing altogether
StorageLoadAll ==
    /\ \E kind \in Kinds, fault \in Faults, missing \in BOOLEAN :
         /\ missing => Directory(kind, cards, chunks, views) = <<>>
         /\ LET r == CardStorage_loadAll(
                         Directory(kind, cards, chunks, views), missing, fault)
            IN  last' = [op |-> "loadAll", kind |-> kind, missing |-> missing,
                         fault |-> fault, err |-> r.err, ret |-> r.ret]
    /\ UNCHANGED <<cards, chunks, views, nextId, nextChunkId, nextViewId, now,
                   asyncVars>>

NextStorage ==
    \/ StorageLoad
    \/ StorageDelete
    \/ StorageLoadAll

SpecStorage == InitExport /\ [][NextStorage]_vars

(* ----------------------- the status of the cards ----------------------- *)

\* the patch of Patches that carries a status
StatusPatch ==
    [NoPatch EXCEPT !.fields = {"title", "status", "tags"},
                    !.title = <<"T">>, !.status = "edited", !.tags = <<"y">>]

StatusPatches ==
    {StatusPatch, ContentPatch(sA)}
    \cup {[NoPatch EXCEPT !.fields = {"id"}, !.id = j] : j \in Ids}

\* createCard and an updateCard that sets the status have returned, and one
\* importTextAsCards call has been made
InitStatus ==
    /\ cards = updateCard(
                  saveCard(<<>>, newCardObject(1, sAB, <<>>, <<>>, FALSE,
                                    DefaultPosition, MaxClock - 4)),
                  1, StatusPatch, MaxClock - 3).store
    /\ chunks = <<>>
    /\ views = <<>>
    /\ nextId = 2
    /\ nextChunkId = 1
    /\ nextViewId = 1
    /\ now = MaxClock - 2
    /\ last = NoOp
    /\ calls = <<[op |-> "importTextAsCards", text |-> sPara,
                  splitBy |-> "paragraph", pc |-> "start"]>>
    /\ service = NoService
    /\ files = <<>>

StatusUpdateCard == UpdateCardOf(StatusPatches)

NextStatus ==
    \/ StoreCreateCard
    \/ StatusUpdateCard
    \/ StoreSplitCard
    \/ MergeCards
    \/ AutoArrangeCards
    \/ CreateChunk
    \/ UpdateChunk
    \/ ImportTextAsCards

SpecStatus == InitStatus /\ [][NextStatus]_vars

(* ------------- calls of the manager interleaved at each await ---------- *)

\* a call of the manager with its local variables: card and card2 are the
\* loaded cards of splitCard and mergeCards, loaded the results of the
\* loadCard calls of autoArrangeCards that have returned (toLoad those that
\* have not), validCards and idx its array and loop index, target and
\* updates the arguments of the updateCard call in progress, updated its
\* updatedCard, created the card of createCard
RaceCall(op, id, id2, splitPoint, updates, cardIds, layout) ==
    [op |-> op, id |-> id, id2 |-> id2, splitPoint |-> splitPoint,
     cardIds |-> cardIds, layout |-> layout,
     pc |-> IF op = "updateCard" THEN "updateLoad" ELSE "start",
     card |-> <<>>, card2 |-> <<>>,
     toLoad |-> DOMAIN cardIds, loaded |-> [k \in DOMAIN cardIds |-> <<>>],
     validCards |-> <<>>, idx |-> 0,
     target |-> id, updates |-> updates, updated |-> <<>>, created |-> <<>>,
     err |-> "none", ret |-> <<>>]

RaceCalls ==
    {RaceCall("updateCard", 1, 0, 0, ContentPatch(c), <<>>, LinearLayout) :
        c \in {sA, sPara}}
    \cup {RaceCall("deleteCard", 1, 0, 0, NoPatch, <<>>, LinearLayout),
          RaceCall("splitCard", 1, 0, 2, NoPatch, <<>>, LinearLayout),
          RaceCall("mergeCards", 1, 2, 0, NoPatch, <<>>, LinearLayout),
          RaceCall("autoArrangeCards", 0, 0, 0, NoPatch, <<2, 1>>,
              LinearLayout)}

\* two createCard calls have returned, and MaxCalls calls are made before
\* any of them proceeds; calls beyond the second are deleteCard or
\* updateCard calls
InitRace ==
    /\ cards = saveCard(saveCard(<<>>,
                    newCardObject(1, sAB, <<>>, <<>>, FALSE, DefaultPosition,
                        1)),
                    newCardObject(2, sA, <<>>, <<>>, FALSE, DefaultPosition,
                        2))
    /\ chunks = <<>>
    /\ views = <<>>
    /\ nextId = 3
    /\ nextChunkId = 1
    /\ nextViewId = 1
    /\ now = 3
    /\ last = NoOp
    /\ calls \in [1..MaxCalls -> RaceCalls]
    /\ \A i \in 3..MaxCalls : calls[i].op \in {"deleteCard", "updateCard"}
    /\ service = NoService
    /\ files = <<>>

raceFrame == UNCHANGED <<chunkVars, last, service, files>>

\* the exception of a step ends the call
Thrown(call, err) == [call EXCEPT !.pc = "done", !.err = err]

\* the updateCard call on target with updates that the call makes next
CallUpdateCard(call, target, updates) ==
    [call EXCEPT !.pc = "updateLoad", !.target = target, !.updates = updates]

\* the patch of updateCardPosition for validCards[idx]
PositionPatch(layout, idx) ==
    [NoPatch EXCEPT !.fields = {"position"},
                    !.position = arrangedPosition(layout, idx - 1)]

\* the elements of a sequence of sequences, in order
RECURSIVE flatten(_)
flatten(seqs) ==
    IF seqs = <<>> THEN <<>> ELSE Head(seqs) \o flatten(Tail(seqs))

\* CardManager.deleteCard: storage.deleteCard
RaceDelete(i) ==
    /\ calls[i].op = "deleteCard" /\ calls[i].pc = "start"
    /\ cards' = deleteCard(cards, calls[i].id)
    /\ calls' = [calls EXCEPT ![i].pc = "done",
                               ![i].ret = <<Persisted(cards, calls[i].id)>>]
    /\ now' = now + 1
    /\ UNCHANGED nextId
    /\ raceFrame

\* the first loadCard of splitCard and of mergeCards
RaceLoad(i) ==
    /\ calls[i].op \in {"splitCard", "mergeCards"} /\ calls[i].pc = "start"
    /\ LET card == IF Persisted(cards, calls[i].id)
                   THEN <<loadCard(cards, calls[i].id)>> ELSE <<>>
       IN  calls' =
             [calls EXCEPT ![i] =
                IF calls[i].op = "mergeCards"
                THEN [@ EXCEPT !.pc = "load2", !.card = card]
                ELSE IF card = <<>> THEN Thrown(@, "NotFound")
                ELSE CallUpdateCard([@ EXCEPT !.card = card], calls[i].id,
                         LET content1 == trim(substring(card[1].content, 0,
                                                  calls[i].splitPoint))
                         IN  [NoPatch EXCEPT
                                !.fields = {"content", "title"},
                                !.content = content1,
                                !.title = extractTitle(content1)])]
    /\ now' = now + 1
    /\ UNCHANGED <<cards, nextId>>
    /\ raceFrame

\* the second loadCard of mergeCards and its test of the two cards
RaceLoad2(i) ==
    /\ calls[i].pc = "load2"
    /\ LET card1 == calls[i].card
           card2 == IF Persisted(cards, calls[i].id2)
                    THEN <<loadCard(cards, calls[i].id2)>> ELSE <<>>
       IN  calls' =
             [calls EXCEPT ![i] =
                IF card1 = <<>> \/ card2 = <<>> THEN Thrown(@, "NotFound")
                ELSE CallUpdateCard([@ EXCEPT !.card2 = card2], calls[i].id,
                         LET mergedContent ==
                                 mergedContentOf(card1[1].content,
                                     card2[1].content)
                         IN  [NoPatch EXCEPT
                                !.fields = {"content", "title", "tags"},
                                !.content = mergedContent,
                                !.title = extractTitle(mergedContent),
                                !.tags = uniqueTags(card1[1].tags
                                                    \o card2[1].tags)])]
    /\ now' = now + 1
    /\ UNCHANGED <<cards, nextId>>
    /\ raceFrame

\* one of the loadCard calls of autoArrangeCards returns; after the last
\* one the null results are filtered out and the loop is entered
RaceArrangeLoad(i) ==
    /\ calls[i].op = "autoArrangeCards" /\ calls[i].pc = "start"
    /\ \E k \in calls[i].toLoad :
         LET id == calls[i].cardIds[k]
             loaded == [calls[i].loaded EXCEPT
                          ![k] = IF Persisted(cards, id)
                                 THEN <<loadCard(cards, id)>> ELSE <<>>]
             validCards == flatten(loaded)
             rest == calls[i].toLoad \ {k}
         IN  calls' =
               [calls EXCEPT ![i] =
                  IF rest # {}
                  THEN [@ EXCEPT !.toLoad = rest, !.loaded = loaded]
                  ELSE IF calls[i].layout.type \in {"grid", "linear"}
                          /\ validCards # <<>>
                  THEN CallUpdateCard(
                         [@ EXCEPT !.toLoad = rest, !.loaded = loaded,
                                   !.validCards = validCards, !.idx = 1],
                         validCards[1].id,
                         PositionPatch(calls[i].layout, 1))
                  ELSE [@ EXCEPT !.toLoad = rest, !.loaded = loaded,
                                 !.validCards = validCards, !.pc = "done",
                                 !.ret = validCards]]
    /\ now' = now + 1
    /\ UNCHANGED <<cards, nextId>>
    /\ raceFrame

\* updateCard up to its saveCard, in whichever call makes it
RaceUpdateLoad(i) ==
    /\ calls[i].pc = "updateLoad"
    /\ calls' =
         [calls EXCEPT ![i] =
            IF ~Persisted(cards, calls[i].target)
            THEN Thrown(@, "NotFound")
            ELSE [@ EXCEPT !.pc = "updateSave",
                     !.updated = <<updatedCardObject(
                                      loadCard(cards, calls[i].target),
                                      calls[i].updates, now)>>]]
    /\ now' = now + 1
    /\ UNCHANGED <<cards, nextId>>
    /\ raceFrame

\* the saveCard of updateCard, and what its caller does with the result up
\* to the next await
RaceUpdateSave(i) ==
    /\ calls[i].pc = "updateSave"
    /\ cards' = saveCard(cards, calls[i].updated[1])
    /\ calls' =
         [calls EXCEPT ![i] =
            CASE calls[i].op = "updateCard"
                   -> [@ EXCEPT !.pc = "done", !.ret = calls[i].updated]
              [] calls[i].op = "splitCard" -> [@ EXCEPT !.pc = "create"]
              [] calls[i].op = "mergeCards"
                   -> [@ EXCEPT !.pc = "save",
                          !.updated = <<pushHistory(calls[i].updated[1], now,
                                          calls[i].updates.content, "merge")>>]
              [] calls[i].op = "autoArrangeCards"
                   -> LET validCards ==
                              [calls[i].validCards EXCEPT
                                 ![calls[i].idx] = calls[i].updated[1]]
                          idx == calls[i].idx + 1
                      IN  IF idx > Len(validCards)
                          THEN [@ EXCEPT !.pc = "done",
                                         !.validCards = validCards,
                                         !.ret = validCards]
                          ELSE CallUpdateCard(
                                 [@ EXCEPT !.validCards = validCards,
                                           !.idx = idx],
                                 validCards[idx].id,
                                 PositionPatch(calls[i].layout, idx))]
    /\ now' = now + 1
    /\ UNCHANGED nextId
    /\ raceFrame

\* the createCard of splitCard, and the two history.push that follow it
RaceCreate(i) ==
    /\ calls[i].pc = "create"
    /\ LET card == calls[i].card[1]
           content2 == trim(substringFrom(card.content, calls[i].splitPoint))
           created == newCardObject(nextId, content2, extractTitle(content2),
                          card.tags, TRUE, splitPosition(card.position), now)
       IN  /\ cards' = saveCard(cards, created)
           /\ calls' =
                [calls EXCEPT ![i].pc = "save",
                   ![i].updated = <<pushHistory(calls[i].updated[1], now,
                                      calls[i].updates.content, "split")>>,
                   ![i].created = <<pushHistory(created, now, content2,
                                      "split")>>]
    /\ nextId' = nextId + 1
    /\ now' = now + 1
    /\ raceFrame

\* storage.saveCard(updatedCard1) of splitCard, storage.saveCard(mergedCard)
\* of mergeCards
RaceSave(i) ==
    /\ calls[i].pc = "save"
    /\ cards' = saveCard(cards, calls[i].updated[1])
    /\ calls' = [calls EXCEPT ![i].pc = IF calls[i].op = "splitCard"
                                        THEN "saveNew" ELSE "delete"]
    /\ now' = now + 1
    /\ UNCHANGED nextId
    /\ raceFrame

\* storage.saveCard(newCard) of splitCard, which then returns
RaceSaveNew(i) ==
    /\ calls[i].pc = "saveNew"
    /\ cards' = saveCard(cards, calls[i].created[1])
    /\ calls' = [calls EXCEPT ![i].pc = "done",
                    ![i].ret = calls[i].updated \o calls[i].created]
    /\ now' = now + 1
    /\ UNCHANGED nextId
    /\ raceFrame

\* storage.deleteCard(id2) of mergeCards, which then returns
RaceMergeDelete(i) ==
    /\ calls[i].pc = "delete"
    /\ cards' = deleteCard(cards, calls[i].id2)
    /\ calls' = [calls EXCEPT ![i].pc = "done", ![i].ret = calls[i].updated]
    /\ now' = now + 1
    /\ UNCHANGED nextId
    /\ raceFrame

NextRace ==
    \/ \E i \in DOMAIN calls : RaceDelete(i)
    \/ \E i \in DOMAIN calls : RaceLoad(i)
    \/ \E i \in DOMAIN calls : RaceLoad2(i)
    \/ \E i \in DOMAIN calls : RaceArrangeLoad(i)
    \/ \E i \in DOMAIN calls : RaceUpdateLoad(i)
    \/ \E i \in DOMAIN calls : RaceUpdateSave(i)
    \/ \E i \in DOMAIN calls : RaceCreate(i)
    \/ \E i \in DOMAIN calls : RaceSave(i)
    \/ \E i \in DOMAIN calls : RaceSaveNew(i)
    \/ \E i \in DOMAIN calls : RaceMergeDelete(i)

SpecRace == InitRace /\ [][NextRace]_vars

(* ------------------------- export of a view ---------------------------- *)

\* two createCard calls, two createChunk calls without autoArrange and a
\* createView have returned; the clock leaves room for two more operations
InitView ==
    /\ \E c1 \in {sA, sAB}, c2 \in {sA, sAB} :
         cards = saveCard(saveCard(<<>>,
                     newCardObject(1, c1, <<>>, <<>>, FALSE, DefaultPosition,
                         MaxClock - 5)),
                     newCardObject(2, c2, <<>>, <<>>, FALSE, DefaultPosition,
                         MaxClock - 4))
    /\ chunks = createChunk(<<>>,
                    createChunk(<<>>, <<>>, 1, sName, <<1>>, sGeneral,
                        LinearLayout, MaxClock - 3).chunks,
                    2, sName, <<2>>, sGeneral, LinearLayout,
                    MaxClock - 2).chunks
    /\ \E chunkIds \in {<<1, 2>>, <<2, 1>>, <<1, 2, 1>>} :
         views = saveView(<<>>, newViewObject(1, sName, <<>>, chunkIds))
    /\ nextId = 3
    /\ nextChunkId = 3
    /\ nextViewId = 2
    /\ now = MaxClock - 1
    /\ last = NoOp
    /\ calls = <<>>
    /\ service = NoService
    /\ files = <<>>

ViewDeleteChunk == DeleteChunkOf(1..(nextChunkId - 1))

\* exportViewAsText with either manager on the same cards, chunks and
\* views; it reads no clock
ExportViewAsText ==
    /\ \E id \in ViewIds \cup {nextViewId} :
         LET r == exportViewAsText(cards, chunks, views, id, FALSE)
             m == exportViewAsText(cards, chunks, views, id, TRUE)
         IN  last' = [op |-> "exportViewAsText", err |-> r.err, id |-> id,
                      ret |-> r.ret, inMemory |-> m]
    /\ UNCHANGED <<cards, chunks, views, nextId, nextChunkId, nextViewId, now,
                   asyncVars>>

NextView ==
    \/ DeleteCard
    \/ ViewDeleteChunk
    \/ DeleteView
    \/ ExportViewAsText

SpecView == InitView /\ [][NextView]_vars

(* ------------------------------ properties ----------------------------- *)

LastEntry(card) == card.history[Len(card.history)]

IsPrefix(h1, h2) == Len(h1) <= Len(h2) /\ SubSeq(h2, 1, Len(h1)) = h1

\* the last operation completed and is one of the mutating operations of
\* the manager, updateCard only with a patch of the content alone
ContentMutationDone ==
    /\ last.err = "none"
    /\ \/ last.op \in {"createCard", "splitCard", "mergeCards",
                       "autoArrangeCards"}
       \/ last.op = "updateCard" /\ last.updates.fields = {"content"}

\* C1: after a completed createCard, updateCard with a content patch,
\* splitCard, mergeCards or autoArrangeCards, every persisted card has a
\* non-empty history whose last entry carries the card's current content.
C1_LastEntryIsContent ==
    ContentMutationDone =>
        \A id \in DOMAIN cards :
            /\ Len(cards[id].history) >= 1
            /\ LastEntry(cards[id]).content = cards[id].content

\* C2: updateCard(id, {content: c2}) with c2 different from the stored
\* content returns and persists the card with content c2, word count
\* countWords(c2) and the previous history plus one edit entry carrying c2.
C2_ContentUpdateAppendsEdit ==
    [][(/\ last'.op = "updateCard" /\ last'.err = "none"
        /\ last'.updates.fields = {"content"}
        /\ last'.updates.content # cards[last'.id].content)
       => LET id == last'.id
              c2 == last'.updates.content
              after == cards'[id]
          IN  /\ last'.ret = <<after>>
              /\ after.content = c2
              /\ after.metadata.wordCount = countWords(c2)
              /\ Len(after.history) = Len(cards[id].history) + 1
              /\ IsPrefix(cards[id].history, after.history)
              /\ LastEntry(after).changeType = "edit"
              /\ LastEntry(after).content = c2]_vars

\* C3: history is append-only: every persisted card has a history of length
\* at least 1 that starts with a create entry, and every operation leaves
\* the history of a card that stays persisted an extension of what it was.
C3_HistoryAppendOnly ==
    [][\A id \in DOMAIN cards' :
          /\ Len(cards'[id].history) >= 1
          /\ cards'[id].history[1].changeType = "create"
          /\ id \in DOMAIN cards
               => IsPrefix(cards[id].history, cards'[id].history)]_vars

\* C4: every persisted card has metadata.wordCount = countWords(content).
C4_WordCountMatchesContent ==
    \A id \in DOMAIN cards :
        cards[id].metadata.wordCount = countWords(cards[id].content)

\* C5: createCard(content, ...) returns a draft card with the given content
\* and a history of exactly one create entry carrying that content, and
\* getCard finds that card under the returned id.
C5_CreateSeedsHistory ==
    last.op = "createCard" =>
        LET card == last.ret[1]
        IN  /\ last.err = "none"
            /\ card.content = last.args.content
            /\ card.status = "draft"
            /\ Len(card.history) = 1
            /\ card.history[1].changeType = "create"
            /\ card.history[1].content = card.content
            /\ Persisted(cards, card.id)
            /\ loadCard(cards, card.id) = card

C5_Witness ==
    /\ last.op = "createCard"
    /\ last.args.content = sPara
    /\ Cardinality(DOMAIN cards) = 2

\* C6: updateCard(id, {}) on an existing card changes nothing of the card
\* but metadata.updatedAt, which becomes the clock value of the call, and
\* changes no other card.
C6_EmptyPatchOnlyRefreshes ==
    [][(/\ last'.op = "updateCard" /\ last'.err = "none"
        /\ last'.updates.fields = {})
       => /\ DOMAIN cards' = DOMAIN cards
          /\ \A id \in DOMAIN cards :
               cards'[id] = IF id = last'.id
                            THEN [cards[id] EXCEPT !.metadata.updatedAt = now]
                            ELSE cards[id]
          /\ last'.ret = <<cards'[last'.id]>>]_vars

\* an empty patch was applied to a card that had been edited before and
\* moved updatedAt past the time of the last history entry
C6_Witness ==
    /\ last.op = "updateCard" /\ last.err = "none"
    /\ last.updates.fields = {}
    /\ Len(cards[last.id].history) >= 2
    /\ cards[last.id].metadata.updatedAt
         > LastEntry(cards[last.id]).timestamp

SplitInRange ==
    /\ last.op = "splitCard" /\ last.err = "none"
    /\ 0 <= last.splitPoint /\ last.splitPoint <= Len(last.content)

\* C7: splitCard with a split point below 0 or above the content length
\* fails with InvalidArgument and leaves the store as it was.
C7_SplitOutOfRangeRejected ==
    [][(/\ last'.op = "splitCard" /\ Persisted(cards, last'.id)
        /\ \/ last'.splitPoint < 0
           \/ last'.splitPoint > Len(cards[last'.id].content))
       => /\ last'.err = "InvalidArgument"
          /\ cards' = cards]_vars

\* C8: splitCard(id, p) with p in [0, length] leaves the original id with
\* the trimmed prefix, persists exactly one new card, under a fresh id, with
\* the trimmed suffix, titles both by extractTitle of their new content, and
\* puts the new card at (x + width + 20, y, width, height) while the
\* original keeps its position.
C8_SplitContentsAndPosition ==
    [][(/\ last'.op = "splitCard" /\ Persisted(cards, last'.id)
        /\ 0 <= last'.splitPoint
        /\ last'.splitPoint <= Len(cards[last'.id].content))
       => LET id == last'.id
              p == last'.splitPoint
              c == cards[id].content
              pos == cards[id].position
              new == last'.newId
          IN  /\ last'.err = "none"
              /\ new \notin DOMAIN cards /\ new >= nextId
              /\ DOMAIN cards' = DOMAIN cards \cup {new}
              /\ cards'[id].content = trim(SubSeq(c, 1, p))
              /\ cards'[new].content = trim(SubSeq(c, p + 1, Len(c)))
              /\ cards'[id].title = extractTitle(cards'[id].content)
              /\ cards'[new].title = extractTitle(cards'[new].content)
              /\ cards'[id].position = pos
              /\ cards'[new].position =
                   [x |-> pos.x + pos.width + 20, y |-> pos.y,
                    width |-> pos.width, height |-> pos.height]
              /\ last'.ret = <<cards'[id], cards'[new]>>]_vars

\* a card at a position of its own was split strictly inside its content
C8_Witness ==
    /\ SplitInRange
    /\ 0 < last.splitPoint /\ last.splitPoint < Len(last.content)
    /\ cards[last.id].position = Position1
    /\ cards[last.newId].position.x = 130
    /\ cards[last.id].content # <<>> /\ cards[last.newId].content # <<>>

\* C9: after splitCard(id, p) with p in [0, length], the original card's
\* history ends with an edit entry and a split entry that both carry the
\* prefix, and the new card's history is a create entry and a split entry
\* that both carry the suffix.
C9_SplitHistories ==
    SplitInRange =>
        LET h1 == cards[last.id].history
            h2 == cards[last.newId].history
            content1 == trim(SubSeq(last.content, 1, last.splitPoint))
            content2 == trim(SubSeq(last.content, last.splitPoint + 1,
                                    Len(last.content)))
        IN  /\ Len(h1) >= 2
            /\ h1[Len(h1) - 1].changeType = "edit"
            /\ h1[Len(h1) - 1].content = content1
            /\ h1[Len(h1)].changeType = "split"
            /\ h1[Len(h1)].content = content1
            /\ Len(h2) = 2
            /\ h2[1].changeType = "create" /\ h2[1].content = content2
            /\ h2[2].changeType = "split" /\ h2[2].content = content2

\* content is X \n \n Y with X and Y non-empty and without leading or
\* trailing whitespace, and p lies inside the blank-line boundary
AtBlankLine(content, p) ==
    \E k \in 1..(Len(content) - 3) :
        LET X == SubSeq(content, 1, k)
            Y == SubSeq(content, k + 3, Len(content))
        IN  /\ SubSeq(content, k + 1, k + 2) = <<"\n", "\n">>
            /\ trim(X) = X /\ trim(Y) = Y
            /\ k <= p /\ p <= k + 2

\* C10: splitCard(id, p) at the blank-line boundary of X \n \n Y followed
\* by mergeCards(original, new) leaves the original id with the content
\* X \n \n Y and the new id not persisted.
C10_SplitMergeRoundTrip ==
    [][(/\ last.op = "splitCard" /\ last.err = "none"
        /\ AtBlankLine(last.content, last.splitPoint)
        /\ last'.op = "mergeCards"
        /\ last'.id = last.id /\ last'.id2 = last.newId)
       => /\ last'.err = "none"
          /\ Persisted(cards', last.id)
          /\ cards'[last.id].content = last.content
          /\ ~Persisted(cards', last.newId)]_vars

C10_Witness ==
    /\ last.op = "mergeCards" /\ last.err = "none"
    /\ last.undoes # <<>>
    /\ AtBlankLine(last.undoes[1].content, last.undoes[1].splitPoint)
    /\ cards[last.id].content = sPara

\* C11: mergeCards(A, B) on two distinct existing cards leaves A persisted
\* with content A \n \n B, the title extracted from it and a last history
\* entry of type merge carrying it, leaves B not persisted, and creates or
\* modifies no other card.
C11_MergeResult ==
    [][(/\ last'.op = "mergeCards" /\ last'.id # last'.id2
        /\ Persisted(cards, last'.id) /\ Persisted(cards, last'.id2))
       => LET A == last'.id
              B == last'.id2
              merged == cards[A].content \o <<"\n", "\n">> \o cards[B].content
          IN  /\ last'.err = "none"
              /\ DOMAIN cards' = DOMAIN cards \ {B}
              /\ cards'[A].id = A
              /\ cards'[A].content = merged
              /\ cards'[A].title = extractTitle(merged)
              /\ LastEntry(cards'[A]).changeType = "merge"
              /\ LastEntry(cards'[A]).content = merged
              /\ last'.ret = <<cards'[A]>>
              /\ \A id \in DOMAIN cards \ {A, B} : cards'[id] = cards[id]]_vars

\* two cards with different contents were merged
C11_Witness ==
    /\ last.op = "mergeCards" /\ last.err = "none" /\ last.id # last.id2
    /\ Persisted(cards, last.id) /\ ~Persisted(cards, last.id2)
    /\ Len(cards[last.id].content) >= 5
    /\ Len(cards[last.id].history) >= 3

\* C13: id and metadata.createdAt of a card never change while the card
\* stays persisted, and updateCard(id, patch) writes the document of id and
\* no other card document.
C13_IdAndCreatedAtImmutable ==
    [][/\ \A id \in DOMAIN cards \cap DOMAIN cards' :
            /\ cards'[id].id = cards[id].id
            /\ cards'[id].metadata.createdAt = cards[id].metadata.createdAt
       /\ (last'.op = "updateCard" /\ Persisted(cards, last'.id))
            => /\ DOMAIN cards' = DOMAIN cards
               /\ \A id \in DOMAIN cards \ {last'.id} : cards'[id] = cards[id]
               /\ last'.ret[1].id = last'.id]_vars

\* the position the layout rules give index i (zero-based): columns and
\* spacing as supplied, 3 and 20 when the layout does not carry them
StatedPosition(layout, i) ==
    LET columns == IF "columns" \in layout.fields THEN layout.columns ELSE 3
        spacing == IF "spacing" \in layout.fields THEN layout.spacing ELSE 20
    IN  IF layout.type = "grid"
        THEN [x |-> (i % columns) * (250 + spacing),
              y |-> (i \div columns) * (200 + spacing),
              width |-> 250, height |-> 200]
        ELSE [x |-> i * (250 + spacing), y |-> 0,
              width |-> 250, height |-> 200]

\* C19: autoArrangeCards with a grid or linear layout returns the i-th
\* resolvable card at the position the layout rules give index i, with the
\* columns and spacing the layout supplies, and persists that position (the
\* one of its last occurrence for an id that occurs more than once).
C19_ArrangedPositions ==
    (/\ last.op = "autoArrangeCards" /\ last.err = "none"
     /\ last.layout.type \in {"grid", "linear"})
    => \A i \in 1..Len(last.ret) :
          /\ last.ret[i].position = StatedPosition(last.layout, i - 1)
          /\ (\A j \in (i + 1)..Len(last.ret) : last.ret[j].id # last.ret[i].id)
                => cards[last.ret[i].id].position = last.ret[i].position

\* the ids of cardIds that resolve in store, one per occurrence, in order
ResolvableIds(store, cardIds) ==
    SelectSeq(cardIds, LAMBDA id : id \in DOMAIN store)

\* C20: autoArrangeCards completes without error whether or not all ids
\* resolve, returns the cards of the resolvable ids, one per occurrence and
\* in the order of cardIds, and creates no document.
C20_UnresolvedIdsDropped ==
    [][last'.op = "autoArrangeCards"
       => /\ last'.err = "none"
          /\ Len(last'.ret) = Len(ResolvableIds(cards, last'.cardIds))
          /\ \A i \in 1..Len(last'.ret) :
               last'.ret[i].id = ResolvableIds(cards, last'.cardIds)[i]
          /\ DOMAIN cards' = DOMAIN cards]_vars

\* a list with an id that does not resolve and a repeated id that does
C20_Witness ==
    /\ last.op = "autoArrangeCards" /\ last.err = "none"
    /\ last.layout.type = "grid"
    /\ Len(last.cardIds) = 4 /\ Len(last.ret) = 3
    /\ DOMAIN cards = {1}

\* C12: updateCard, splitCard, updateChunk and updateView on an id that is
\* not persisted, and mergeCards where either id is not persisted, fail with
\* NotFound and leave the stores of cards, chunks and views as they were.
C12_NotFoundLeavesStore ==
    [][(\/ /\ last'.op \in {"updateCard", "splitCard"}
           /\ ~Persisted(cards, last'.id)
        \/ /\ last'.op = "mergeCards"
           /\ ~(Persisted(cards, last'.id) /\ Persisted(cards, last'.id2))
        \/ /\ last'.op = "updateChunk" /\ ~Persisted(chunks, last'.id)
        \/ /\ last'.op = "updateView" /\ ~Persisted(views, last'.id))
       => /\ last'.err = "NotFound"
          /\ cards' = cards /\ chunks' = chunks /\ views' = views]_vars

C12_Witness ==
    /\ last.op = "mergeCards" /\ last.err = "NotFound"
    /\ Persisted(cards, last.id) /\ ~Persisted(cards, last.id2)
    /\ Persisted(chunks, 1) /\ Len(cards[last.id].history) = 1

\* C18: whenever createChunk or updateChunk returns a chunk whose stored
\* layout has autoArrange true and whose cardIds is non-empty, the persisted
\* cards of cardIds have the positions autoArrangeCards of those cardIds with
\* that layout gives them.
C18_AutoArrangeOnChunkWrite ==
    [][(/\ last'.op \in {"createChunk", "updateChunk"} /\ last'.err = "none"
        /\ autoArrangeOf(last'.ret[1].layout)
        /\ Len(last'.ret[1].cardIds) > 0)
       => LET arranged == autoArrangeCards(cards, last'.ret[1].cardIds,
                              last'.ret[1].layout, now).store
          IN  \A i \in DOMAIN last'.ret[1].cardIds :
                  LET id == last'.ret[1].cardIds[i]
                  IN  Persisted(cards, id)
                        => /\ Persisted(cards', id)
                           /\ cards'[id].position = arranged[id].position]_vars

\* the calls of calls that are updateCard
Updaters == {i \in DOMAIN calls : calls[i].op = "updateCard"}

\* C14: when two updateCard calls on the same card run with their load and
\* save steps interleaved and both complete, the persisted card is the card
\* returned by the call whose save completed last.
C14_LastWriteWins ==
    (/\ Cardinality(Updaters) = 2
     /\ \A i \in Updaters : calls[i].pc = "done" /\ calls[i].err = "none")
    => \E w \in Updaters :
          /\ \A i \in Updaters : calls[i].savedAt <= calls[w].savedAt
          /\ readCard(files, TargetId) = [err |-> "none", ret |-> calls[w].ret]

\* C15: a getCard or getAllCards that runs while one save overwrites the
\* card returns the whole previous or the whole new card, and no error.
C15_SaveAtomicForReaders ==
    Cardinality(Updaters) = 1 =>
        \A i \in DOMAIN calls \ Updaters :
            calls[i].pc = "done" =>
                /\ calls[i].err = "none"
                /\ \/ calls[i].ret = last.ret
                   \/ \E w \in Updaters : calls[i].ret = calls[w].updated

\* C16: after a splitCard that failed after one of its writes and was called
\* again to completion, the cards hold the contents one uninterrupted
\* splitCard gives: the original the trimmed prefix, exactly one new card
\* the trimmed suffix, and no further card; after a mergeCards that failed
\* before its deleteCard and was called again, the first card holds the
\* content one uninterrupted mergeCards gives and the second card is gone.
C16_RetryIsSafe ==
    /\ last.op = "splitCardRetry" =>
          LET content == last.before[last.id].content
              created == DOMAIN cards \ DOMAIN last.before
          IN  /\ last.err = "none"
              /\ cards[last.id].content =
                     trim(substring(content, 0, last.splitPoint))
              /\ Cardinality(created) = 1
              /\ \A id \in created :
                     cards[id].content =
                        trim(substringFrom(content, last.splitPoint))
    /\ last.op = "mergeCardsRetry" =>
          /\ last.err = "none"
          /\ DOMAIN cards = DOMAIN last.before \ {last.id2}
          /\ cards[last.id].content =
                 mergedContentOf(last.before[last.id].content,
                                 last.before[last.id2].content)

\* C17: any two getCardManager calls with the same root that ran between
\* the same two dispose calls, however their steps interleave, return the
\* same CardManager instance.
C17_OneManagerPerRoot ==
    \A i \in DOMAIN calls, j \in DOMAIN calls :
        (/\ calls[i].pc = "done" /\ calls[j].pc = "done"
         /\ calls[i].root = calls[j].root
         /\ ~calls[i].spanned /\ ~calls[j].spanned
         /\ calls[i].disposed = calls[j].disposed)
        => calls[i].ret = calls[j].ret

\* the elements of a sequence
Range(seq) == {seq[i] : i \in DOMAIN seq}

\* C30: after mergeCards(A, B) on two existing cards, A's tags are the tags
\* of the pre-merge A and of the pre-merge B and nothing else, each once.
C30_MergedTagsAreUnion ==
    [][(/\ last'.op = "mergeCards" /\ last'.id # last'.id2
        /\ Persisted(cards, last'.id) /\ Persisted(cards, last'.id2))
       => LET tags == cards'[last'.id].tags
          IN  /\ Range(tags) = Range(cards[last'.id].tags)
                                  \cup Range(cards[last'.id2].tags)
              /\ \A i \in DOMAIN tags, j \in DOMAIN tags :
                     tags[i] = tags[j] => i = j]_vars

C30_Witness ==
    /\ last.op = "mergeCards" /\ last.err = "none" /\ last.id = 1
    /\ last.id2 = 2 /\ cards[1].tags = <<"y", "x">> /\ now = 4

\* the paragraphs of a text: the maximal groups of consecutive lines that
\* are not blank, each group joined by newlines and trimmed
ParagraphsOf(text) ==
    LET lines == splitChar(text, "\n")
        blank(i) == trim(lines[i]) = <<>>
        group[i \in 0..Len(lines)] ==
            IF i = 0 THEN <<>>
            ELSE IF blank(i) THEN group[i - 1]
            ELSE IF i > 1 /\ ~blank(i - 1)
            THEN [group[i - 1] EXCEPT
                     ![Len(group[i - 1])] = @ \o <<"\n">> \o lines[i]]
            ELSE Append(group[i - 1], lines[i])
    IN  [k \in DOMAIN group[Len(lines)] |-> trim(group[Len(lines)][k])]

\* C21: importTextAsCards by paragraph returns a persisted chunk of purpose
\* "imported-text" with one card id per non-empty paragraph, in order; the
\* k-th card is persisted, holds the k-th paragraph trimmed and has a
\* history of exactly one create entry.
C21_ImportByParagraph ==
    (last.op = "importTextAsCards" /\ last.splitBy = "paragraph") =>
        LET chunk == last.ret[1]
            paragraphs == ParagraphsOf(last.text)
        IN  /\ last.err = "none"
            /\ Persisted(chunks, chunk.id) /\ chunks[chunk.id] = chunk
            /\ chunk.purpose = sImportedText
            /\ Len(chunk.cardIds) = Len(paragraphs)
            /\ \A k \in DOMAIN chunk.cardIds :
                  /\ Persisted(cards, chunk.cardIds[k])
                  /\ \A j \in DOMAIN chunk.cardIds :
                         chunk.cardIds[j] = chunk.cardIds[k] => j = k
                  /\ cards[chunk.cardIds[k]].content = paragraphs[k]
                  /\ Len(cards[chunk.cardIds[k]].history) = 1
                  /\ cards[chunk.cardIds[k]].history[1].changeType = "create"

C21_Witness ==
    /\ last.op = "importTextAsCards" /\ last.splitBy = "paragraph"
    /\ last.text = <<"a", "\n", "\n", "a">>
    /\ Len(last.ret[1].cardIds) = 2
    /\ cards[2].content = <<"a">>

\* C22: in every mode importTextAsCards creates no card with empty content,
\* and a text that is empty or only whitespace gives a chunk without cards.
C22_ImportCreatesNoEmptyCard ==
    last.op = "importTextAsCards" =>
        /\ \A id \in DOMAIN cards : cards[id].content # <<>>
        /\ trim(last.text) = <<>> => last.ret[1].cardIds = <<>>

\* the contents of the persisted cards among cardIds, in order
SurvivingContents(cardIds) ==
    LET ids == SelectSeq(cardIds, LAMBDA id : Persisted(cards, id))
    IN  [i \in DOMAIN ids |-> cards[ids[i]].content]

\* the strings joined with one blank line between two of them
RECURSIVE JoinedByBlankLine(_)
JoinedByBlankLine(strings) ==
    IF Len(strings) = 0 THEN <<>>
    ELSE IF Len(strings) = 1 THEN strings[1]
    ELSE JoinedByBlankLine(SubSeq(strings, 1, Len(strings) - 1))
             \o <<"\n", "\n">> \o strings[Len(strings)]

\* C23: exportChunkAsText on a persisted chunk completes without error,
\* whether or not cards of its cardIds were deleted, and returns the
\* contents of the cards still persisted, in the order of cardIds, joined
\* by one blank line, with nothing for the missing cards.
C23_ExportSkipsDeletedCards ==
    (last.op = "exportChunkAsText" /\ Persisted(chunks, last.id)) =>
        /\ last.err = "none"
        /\ last.ret =
              JoinedByBlankLine(SurvivingContents(chunks[last.id].cardIds))

C23_Witness ==
    /\ last.op = "exportChunkAsText" /\ last.err = "none"
    /\ chunks[1].cardIds = <<2, 1, 2>>
    /\ ~Persisted(cards, 2) /\ Persisted(cards, 1)
    /\ last.ret = sAB

\* C24: the string exportChunkAsText returns is the trimmed join of the
\* surviving contents.
C24_ExportIsTrimmed ==
    (last.op = "exportChunkAsText" /\ Persisted(chunks, last.id)) =>
        last.ret =
          trim(JoinedByBlankLine(SurvivingContents(chunks[last.id].cardIds)))

\* C25: exportChunkAsText on a chunk id that is not persisted fails with
\* NotFound, in the file-backed and in the in-memory manager.
C25_ExportOfAbsentChunkFails ==
    (last.op = "exportChunkAsText" /\ ~Persisted(chunks, last.id)) =>
        /\ last.err = "NotFound"
        /\ last.inMemory.err = "NotFound"

\* C26: deleteChunk(id) removes at most the chunk document id and leaves
\* every card and every view as it was.
C26_DeleteChunkKeepsCards ==
    [][last'.op = "deleteChunk"
       => /\ cards' = cards
          /\ views' = views
          /\ \A c \in DOMAIN chunks \ {last'.id} :
                 Persisted(chunks', c) /\ chunks'[c] = chunks[c]
          /\ DOMAIN chunks' \subseteq DOMAIN chunks]_vars

C26_Witness ==
    /\ last.op = "deleteChunk" /\ last.ret /\ last.id = 1
    /\ chunks = <<>>
    /\ DOMAIN cards = {1, 2} /\ DOMAIN views = {1}

\* C27: deleteCard(id) removes only the card document id; every chunk keeps
\* its cardIds, the deleted id included, and no other card, chunk or view
\* changes.
C27_DeleteCardKeepsChunks ==
    [][last'.op = "deleteCard"
       => /\ DOMAIN cards' = DOMAIN cards \ {last'.id}
          /\ \A c \in DOMAIN cards' : cards'[c] = cards[c]
          /\ chunks' = chunks
          /\ views' = views]_vars

C27_Witness ==
    /\ last.op = "deleteCard" /\ last.ret /\ last.id = 2
    /\ DOMAIN cards = {1}
    /\ chunks[1].cardIds = <<2, 1, 2>>

\* C29: every persisted view has viewSettings.zoom > 0: createView seeds
\* zoom 1, and updateView of a persisted view with a patch whose
\* viewSettings.zoom is not positive fails with InvalidArgument and leaves
\* the stored view unchanged.
C29_ZoomStaysPositive ==
    [][/\ \A v \in DOMAIN views' : views'[v].viewSettings.zoom > 0
       /\ (/\ last'.op = "updateView" /\ Persisted(views, last'.id)
           /\ "viewSettings" \in last'.updates.fields
           /\ last'.updates.viewSettings.zoom <= 0)
          => (last'.err = "InvalidArgument" /\ views' = views)]_vars

\* C28: in the store, for each kind, load of an id that is not persisted
\* returns null, delete returns true exactly when a document existed and
\* removes it, loadAll of an empty or missing directory returns the empty
\* sequence, and any other I/O failure is thrown to the caller.
C28_AbsenceIsAValue ==
    [][LET before == Directory(last'.kind, cards, chunks, views)
           after == Directory(last'.kind, cards', chunks', views')
       IN  /\ (last'.op \in {"load", "delete", "loadAll"}
                 /\ last'.fault # "none"
                 /\ ~(last'.op = "loadAll" /\ last'.missing))
                => last'.err = last'.fault
           /\ (last'.op = "load" /\ last'.fault = "none")
                => /\ last'.err = "none"
                   /\ last'.ret = IF last'.id \in DOMAIN before
                                  THEN <<before[last'.id]>> ELSE <<>>
           /\ (last'.op = "delete" /\ last'.fault = "none")
                => /\ last'.err = "none"
                   /\ last'.ret = (last'.id \in DOMAIN before)
                   /\ DOMAIN after = DOMAIN before \ {last'.id}
           /\ (last'.op = "loadAll" /\ last'.fault = "none")
                => /\ last'.err = "none"
                   /\ Len(last'.ret) = Cardinality(DOMAIN before)
                   /\ (before = <<>> \/ last'.missing) => last'.ret = <<>>]_vars

C28_Witness ==
    /\ last.op = "delete" /\ last.kind = "view" /\ last.id = 1
    /\ last.fault = "none" /\ last.err = "none" /\ last.ret = FALSE
    /\ views = <<>> /\ now = MaxClock + 1

\* C31: a card that appears in the store has status draft, and the status
\* of a persisted card changes only in an updateCard call on that card
\* whose patch carries a status field.
C31_StatusIsCallerControlled ==
    [][/\ \A id \in DOMAIN cards' \ DOMAIN cards :
            cards'[id].status = "draft"
       /\ \A id \in DOMAIN cards' \cap DOMAIN cards :
            cards'[id].status # cards[id].status
              => /\ last'.op = "updateCard" /\ last'.id = id
                 /\ "status" \in last'.updates.fields]_vars

\* C32: when mergeCards(a, b) returns a card without error, that card is
\* persisted under id a with the returned content after the call, also
\* for a = b.
C32_MergedCardIsPersisted ==
    [][(last'.op = "mergeCards" /\ last'.err = "none")
         => /\ Persisted(cards', last'.id)
            /\ cards'[last'.id].content = last'.ret[1].content]_vars

\* C33: once deleteCard(id) has returned true, no call that was in flight
\* on id persists a card under id again.
C33_DeletionIsPermanent ==
    \A i \in DOMAIN calls :
        (/\ calls[i].op = "deleteCard" /\ calls[i].pc = "done"
         /\ calls[i].ret = <<TRUE>>)
          => ~Persisted(cards, calls[i].id)

\* C34: under any interleaving of calls that change the content of a card,
\* every persisted version of the card keeps the history entries of the
\* version persisted before it, at the same indexes.
C34_HistoryAppendOnlyUnderRace ==
    [][\A id \in DOMAIN cards \cap DOMAIN cards' :
          IsPrefix(cards[id].history, cards'[id].history)]_vars

\* C37: autoArrangeCards returns without error, also when a card it has
\* loaded is deleted by another call before it is repositioned.
C37_ArrangeSurvivesDeletion ==
    \A i \in DOMAIN calls :
        (calls[i].op = "autoArrangeCards" /\ calls[i].pc = "done")
          => calls[i].err = "none"

\* sub occurs in s as a substring
Contains(s, sub) ==
    \E i \in 0..(Len(s) - Len(sub)) : SubSeq(s, i + 1, i + Len(sub)) = sub

\* C35: in every state between two store writes of splitCard(id, p), hence
\* after a failure at any step, the trimmed suffix of the original content
\* is the content of a persisted card or part of the content of the
\* original card.
C35_SplitLosesNoText ==
    (last.op = "splitCard" /\ last.err = "IOError")
      => LET suffix == trim(substringFrom(last.before[last.id].content,
                                last.splitPoint))
         IN  \/ \E id \in DOMAIN cards : cards[id].content = suffix
             \/ /\ Persisted(cards, last.id)
                /\ Contains(cards[last.id].content, suffix)

\* C36: in every state between two store writes of mergeCards(A, B) with
\* A # B, hence after a failure at any step, B is still persisted with its
\* content, so the deleteCard of B is the last write; once the first write
\* is done, B's content is also inside the content of persisted A, and
\* after the second write A carries its merge entry.
C36_MergeDeletesLast ==
    (last.op = "mergeCards" /\ last.err = "IOError")
      => LET content2 == last.before[last.id2].content
         IN  /\ Persisted(cards, last.id2)
             /\ cards[last.id2] = last.before[last.id2]
             /\ Persisted(cards, last.id)
             /\ Contains(cards[last.id].content, content2)
             /\ cards[last.id].content =
                    mergedContentOf(last.before[last.id].content, content2)
             /\ last.writes = 2
                  => LastEntry(cards[last.id]).changeType = "merge"

C36_Witness ==
    /\ last.op = "mergeCards" /\ last.err = "IOError" /\ last.writes = 2
    /\ last.id # last.id2
    /\ Persisted(cards, last.id2)
    /\ LastEntry(cards[last.id]).changeType = "merge"
    /\ Contains(cards[last.id].content, cards[last.id2].content)

\* C38: autoArrangeCards with a grid or linear layout changes nothing but
\* the position and metadata.updatedAt of the referenced cards that
\* resolve; with a freeform layout it writes nothing; it creates and
\* deletes no card and leaves chunks and views alone.
C38_ArrangeChangesOnlyGeometry ==
    [][last'.op = "autoArrangeCards"
         => /\ last'.err = "none"
            /\ chunks' = chunks /\ views' = views
            /\ DOMAIN cards' = DOMAIN cards
            /\ \A id \in DOMAIN cards :
                 IF /\ last'.layout.type \in {"grid", "linear"}
                    /\ id \in Range(last'.cardIds)
                 THEN cards'[id] =
                        [cards[id] EXCEPT
                           !.position = cards'[id].position,
                           !.metadata.updatedAt =
                               cards'[id].metadata.updatedAt]
                 ELSE cards'[id] = cards[id]]_vars

C38_Witness ==
    /\ last.op = "autoArrangeCards" /\ last.err = "none"
    /\ last.layout.type = "linear" /\ last.cardIds = <<2, 1>>
    /\ DOMAIN cards = {1, 2}
    /\ cards[1].position.x > 0 /\ cards[2].position.x = 0
    /\ cards[1].metadata.updatedAt = now - 1
    /\ Len(cards[1].history) = 1

\* the texts of the persisted chunks of chunkIds, in order
SurvivingTexts(chunkIds) ==
    LET ids == SelectSeq(chunkIds, LAMBDA id : Persisted(chunks, id))
    IN  [i \in DOMAIN ids |->
            JoinedByBlankLine(SurvivingContents(chunks[ids[i]].cardIds))]

\* C39: exportViewAsText on a persisted view completes without error, also
\* when chunks of its chunkIds were deleted, and returns the texts of the
\* chunks still persisted, in the order of chunkIds, joined by one blank
\* line, with nothing for the missing chunks; on an absent view it fails
\* with NotFound.  This holds with either manager.
C39_ExportViewSkipsDeletedChunks ==
    last.op = "exportViewAsText" =>
        IF Persisted(views, last.id)
        THEN LET text == trim(JoinedByBlankLine(
                            SurvivingTexts(views[last.id].chunkIds)))
             IN  /\ last.err = "none" /\ last.ret = text
                 /\ last.inMemory.err = "none" /\ last.inMemory.ret = text
        ELSE last.err = "NotFound" /\ last.inMemory.err = "NotFound"

====
